---- MODULE Spec2Model ----
(***************************************************************************)
(* Job lifecycle of the AiClipX backend: the status state machine, the     *)
(* job store with its status-update and cancel handlers, the background    *)
(* processing runs, the idempotency guard and the circuit breaker.         *)
(*                                                                         *)
(* Optional values (Python's Optional[T]) are sequences of length 0 or 1:  *)
(* None is << >> and a value x is << x >>.                                 *)
(***************************************************************************)
EXTENDS Integers, Sequences, FiniteSets, TLC

VARIABLES
    sm,         \* state-machine validators: the input under test and its results
    cb,         \* circuit breaker: _state, _failure_count, _last_failure_time, _opened_at
    cbObs,      \* circuit breaker: last operation, its return value, failure streak
    now,        \* wall clock, in seconds
    ticks,      \* number of clock advances so far
    job,        \* the video_tasks row of the job under observation
    jobLog,     \* job store: last writer, number of writes, writes after cancellation
    run,        \* background processing run of the job: position and locals
    http,       \* last HTTP status-update / cancel request and its response
    idem,       \* idempotency_keys table: the rows of one user
    tasks,      \* job ids created by idempotent create requests
    req,        \* in-flight create requests: position, payload, result
    rp,         \* retry policy: the call under test and its result
    calls,      \* engine adapter: the invocations of CreateJob / PollJob
    cur,        \* cursor functions: the call under test and its result
    pg,         \* a client that pages through the list of jobs
    usr         \* one user's jobs, their runs and the user's create requests

vars ==
    << sm, cb, cbObs, now, ticks, job, jobLog, run, http, idem, tasks, req, rp, calls,
       cur, pg, usr >>

smVars == << sm >>
cbVars == << cb, cbObs >>
clockVars == << now, ticks >>
jobVars == << job, jobLog, run, http >>
idemVars == << idem, tasks, req >>
engVars == << rp, calls >>
listVars == << cur, pg >>
userVars == << usr >>

None == << >>
Some(x) == << x >>
\* Python truthiness of an Optional[str]: None and "" are falsy
Truthy(o) == o # None /\ o[1] # ""

-----------------------------------------------------------------------------
(* State machine                                                           *)

Statuses == {"queued", "processing", "completed", "failed", "cancelled"}

Terminal == {"completed", "failed", "cancelled"}

ALLOWED_TRANSITIONS ==
    [s \in Statuses |->
        CASE s = "queued" -> {"processing", "failed", "cancelled"}
          [] s = "processing" -> {"completed", "failed", "cancelled"}
          [] s = "completed" -> {}
          [] s = "failed" -> {}
          [] s = "cancelled" -> {}]

\* mutant: a terminal status that can be left again
validate_transition_reopen(current_status, new_status) ==
    \/ new_status \in ALLOWED_TRANSITIONS[current_status]
    \/ current_status = "failed" /\ new_status = "queued"

\* mutant: cancelling is allowed from every status
validate_transition_cancel_any(current_status, new_status) ==
    \/ new_status \in ALLOWED_TRANSITIONS[current_status]
    \/ new_status = "cancelled"

validate_transition(current_status, new_status) ==
    new_status \in ALLOWED_TRANSITIONS[current_status]

\* mutant: the upper bound of processing progress is off by one
validate_status_constraints_off(status, progress, video_url, error_message) ==
    CASE status = "queued" ->
            IF progress # None /\ progress[1] # 0
            THEN Some("progress must be 0 for queued status")
            ELSE IF video_url # None
            THEN Some("videoUrl must be null for queued status")
            ELSE IF error_message # None
            THEN Some("errorMessage must be null for queued status")
            ELSE None
      [] status = "processing" ->
            IF video_url # None
            THEN Some("videoUrl must be null for processing status")
            ELSE IF error_message # None
            THEN Some("errorMessage must be null for processing status")
            ELSE IF progress # None /\ progress[1] > 100
            THEN Some("progress must be 0-99 for processing status")
            ELSE None
      [] status = "completed" ->
            IF progress # Some(100)
            THEN Some("progress must be 100 for completed status")
            ELSE IF ~Truthy(video_url)
            THEN Some("videoUrl is required for completed status")
            ELSE IF error_message # None
            THEN Some("errorMessage must be null for completed status")
            ELSE None
      [] status = "failed" ->
            IF ~Truthy(error_message)
            THEN Some("errorMessage is required for failed status")
            ELSE IF video_url # None
            THEN Some("videoUrl must be null for failed status")
            ELSE None
      [] status = "cancelled" ->
            IF video_url # None
            THEN Some("videoUrl must be null for cancelled status")
            ELSE IF error_message # None
            THEN Some("errorMessage must be null for cancelled status")
            ELSE None

validate_status_constraints(status, progress, video_url, error_message) ==
    CASE status = "queued" ->
            IF progress # None /\ progress[1] # 0
            THEN Some("progress must be 0 for queued status")
            ELSE IF video_url # None
            THEN Some("videoUrl must be null for queued status")
            ELSE IF error_message # None
            THEN Some("errorMessage must be null for queued status")
            ELSE None
      [] status = "processing" ->
            IF video_url # None
            THEN Some("videoUrl must be null for processing status")
            ELSE IF error_message # None
            THEN Some("errorMessage must be null for processing status")
            ELSE IF progress # None /\ progress[1] >= 100
            THEN Some("progress must be 0-99 for processing status")
            ELSE None
      [] status = "completed" ->
            IF progress # Some(100)
            THEN Some("progress must be 100 for completed status")
            ELSE IF ~Truthy(video_url)
            THEN Some("videoUrl is required for completed status")
            ELSE IF error_message # None
            THEN Some("errorMessage must be null for completed status")
            ELSE None
      [] status = "failed" ->
            IF ~Truthy(error_message)
            THEN Some("errorMessage is required for failed status")
            ELSE IF video_url # None
            THEN Some("videoUrl must be null for failed status")
            ELSE None
      [] status = "cancelled" ->
            IF video_url # None
            THEN Some("videoUrl must be null for cancelled status")
            ELSE IF error_message # None
            THEN Some("errorMessage must be null for cancelled status")
            ELSE None

\* UpdateStatusRequest.progress: Optional[int] with ge=0, le=100
ProgressMin == 0
ProgressMax == 100
RequestProgress == {None} \cup {Some(p) : p \in ProgressMin..ProgressMax}
\* integers a direct caller of the validator could pass besides these
OtherProgress == {Some(ProgressMin - 1), Some(ProgressMax + 1)}
\* UpdateStatusRequest.videoUrl / errorMessage: Optional[str]
RequestVideoUrl == {None, Some(""), Some("https://cdn/video.mp4")}
RequestErrorMessage == {None, Some(""), Some("Generation failed")}

smIdle == [op |-> "idle"]

SmInputs ==
    {[op |-> "transition", from |-> f, to |-> t, done |-> FALSE, allowed |-> FALSE] :
        f \in Statuses, t \in Statuses}
    \cup
    {[op |-> "constraints", status |-> s, progress |-> p, videoUrl |-> v,
      errorMessage |-> e, done |-> FALSE, error |-> None] :
        s \in Statuses, p \in RequestProgress \cup OtherProgress, v \in RequestVideoUrl,
        e \in RequestErrorMessage}

ValidateTransition ==
    /\ sm.op = "transition"
    /\ ~sm.done
    /\ sm' = [sm EXCEPT !.done = TRUE, !.allowed = validate_transition(sm.from, sm.to)]
    /\ UNCHANGED << cbVars, clockVars, jobVars, idemVars, engVars, listVars, userVars >>

ValidateFieldConstraints ==
    /\ sm.op = "constraints"
    /\ ~sm.done
    /\ sm' = [sm EXCEPT !.done = TRUE,
                        !.error = validate_status_constraints(
                                      sm.status, sm.progress, sm.videoUrl, sm.errorMessage)]
    /\ UNCHANGED << cbVars, clockVars, jobVars, idemVars, engVars, listVars, userVars >>

-----------------------------------------------------------------------------
(* Clock                                                                   *)

\* seconds by which one clock advance may move the clock
TimeSteps == {1, 59}
MaxTicks == 4

Tick ==
    /\ ticks < MaxTicks
    /\ \E d \in TimeSteps : now' = now + d
    /\ ticks' = ticks + 1

-----------------------------------------------------------------------------
(* Circuit breaker                                                         *)

FAILURE_THRESHOLD == 5
COOLDOWN_SECONDS == 60
WINDOW_SECONDS == 60

\* bound on _failure_count, which the code lets grow without limit
MaxFailureCount == 7

CircuitBreakerInit ==
    [state |-> "CLOSED", failure_count |-> 0, last_failure_time |-> None, opened_at |-> None]

\* CircuitBreaker._get_state_locked: the breaker after the call; its state is the return value
get_state_locked(c, t) ==
    IF c.state = "OPEN" /\ c.opened_at # None /\ t - c.opened_at[1] >= COOLDOWN_SECONDS
    THEN [c EXCEPT !.state = "HALF_OPEN"]
    ELSE c

\* mutant: the gate lets every call through
can_attempt_result_always(state) == TRUE

\* CircuitBreaker.can_attempt: the value returned for the state that _get_state_locked leaves
can_attempt_result(state) ==
    IF state = "CLOSED" THEN TRUE
    ELSE IF state = "HALF_OPEN" THEN TRUE
    ELSE FALSE

\* mutant: a success closes the breaker but keeps the failure count
record_success_keep_count(c) ==
    [c EXCEPT !.state = "CLOSED", !.opened_at = None]

\* CircuitBreaker.record_success
record_success(c) ==
    [c EXCEPT !.state = "CLOSED", !.failure_count = 0, !.opened_at = None]

\* mutant: a failed trial call does not reopen the breaker
record_failure_no_reopen(c, t) ==
    LET c1 == IF c.last_failure_time # None /\ t - c.last_failure_time[1] > WINDOW_SECONDS
              THEN [c EXCEPT !.failure_count = 0]
              ELSE c
        c2 == [c1 EXCEPT !.failure_count = c1.failure_count + 1,
                         !.last_failure_time = Some(t)]
        c3 == IF c2.failure_count >= FAILURE_THRESHOLD
              THEN [c2 EXCEPT !.state = "OPEN", !.opened_at = Some(t)]
              ELSE c2
    IN  get_state_locked(c3, t)

\* mutant: the threshold comparison is strict
record_failure_late(c, t) ==
    LET c1 == IF c.last_failure_time # None /\ t - c.last_failure_time[1] > WINDOW_SECONDS
              THEN [c EXCEPT !.failure_count = 0]
              ELSE c
        c2 == [c1 EXCEPT !.failure_count = c1.failure_count + 1,
                         !.last_failure_time = Some(t)]
        c3 == IF c2.failure_count > FAILURE_THRESHOLD
              THEN [c2 EXCEPT !.state = "OPEN", !.opened_at = Some(t)]
              ELSE c2
        c4 == get_state_locked(c3, t)
    IN  IF c4.state = "HALF_OPEN"
        THEN [c4 EXCEPT !.state = "OPEN", !.opened_at = Some(t)]
        ELSE c4

record_failure(c, t) ==
    LET c1 == IF c.last_failure_time # None /\ t - c.last_failure_time[1] > WINDOW_SECONDS
              THEN [c EXCEPT !.failure_count = 0]
              ELSE c
        c2 == [c1 EXCEPT !.failure_count = c1.failure_count + 1,
                         !.last_failure_time = Some(t)]
        c3 == IF c2.failure_count >= FAILURE_THRESHOLD
              THEN [c2 EXCEPT !.state = "OPEN", !.opened_at = Some(t)]
              ELSE c2
        c4 == get_state_locked(c3, t)
    IN  IF c4.state = "HALF_OPEN"
        THEN [c4 EXCEPT !.state = "OPEN", !.opened_at = Some(t)]
        ELSE c4

reset(c) ==
    [c EXCEPT !.state = "CLOSED", !.failure_count = 0, !.opened_at = None,
              !.last_failure_time = None]

\* What the callers of the breaker saw: the last call, the stored state before
\* it, the value can_attempt returned, the run of failures, and the time at
\* which the breaker last went from not OPEN to OPEN; the time of the failure
\* that made _failure_count 1; and the number of times (counted up to 2)
\* can_attempt returned true on a HALF_OPEN breaker since the last
\* record_success, record_failure or reset.
cbObsInit ==
    [op |-> "init", prev |-> "CLOSED", ret |-> TRUE, streak |-> 0, since |-> None,
     first |-> None, trials |-> 0]

\* the trial calls admitted after a can_attempt that leaves the breaker as c
TrialsAfterCanAttempt(c) ==
    IF c.state = "HALF_OPEN" /\ cbObs.trials < 2 THEN cbObs.trials + 1 ELSE cbObs.trials

\* The number of RecordFailure calls made in a row, each within WINDOW_SECONDS of
\* the one before, since the breaker was CLOSED with failure count 0.
StreakAfterFailure ==
    IF cb.state = "CLOSED" /\ cb.failure_count = 0 THEN 1
    ELSE IF cbObs.streak > 0 /\ cb.last_failure_time # None
            /\ now - cb.last_failure_time[1] <= WINDOW_SECONDS
    THEN cbObs.streak + 1
    ELSE 0

\* The opening time after a RecordFailure: a failure opens the breaker when it
\* leaves it OPEN and the breaker was not OPEN, or was past its cooldown, before.
SinceAfterFailure ==
    IF cb'.state = "OPEN" /\ get_state_locked(cb, now).state # "OPEN"
    THEN Some(now)
    ELSE cbObs.since

CanAttempt ==
    /\ cb' = get_state_locked(cb, now)
    /\ cbObs' = [cbObs EXCEPT !.op = "can_attempt", !.prev = cb.state,
                              !.ret = can_attempt_result(cb'.state),
                              !.trials = TrialsAfterCanAttempt(cb')]
    /\ UNCHANGED << smVars, clockVars, jobVars, idemVars, engVars, listVars, userVars >>

RecordSuccess ==
    /\ cb' = record_success(cb)
    /\ cbObs' = [cbObs EXCEPT !.op = "record_success", !.prev = cb.state, !.streak = 0,
                              !.since = None, !.trials = 0]
    /\ UNCHANGED << smVars, clockVars, jobVars, idemVars, engVars, listVars, userVars >>

RecordFailure ==
    /\ cb.failure_count < MaxFailureCount
    /\ cb' = record_failure(cb, now)
    /\ cbObs' = [cbObs EXCEPT !.op = "record_failure", !.prev = cb.state,
                              !.streak = StreakAfterFailure, !.since = SinceAfterFailure,
                              !.first = IF cb'.failure_count = 1 THEN Some(now) ELSE @,
                              !.trials = 0]
    /\ UNCHANGED << smVars, clockVars, jobVars, idemVars, engVars, listVars, userVars >>

GetStatus ==
    /\ cb' = get_state_locked(cb, now)
    /\ cbObs' = [cbObs EXCEPT !.op = "get_status", !.prev = cb.state]
    /\ UNCHANGED << smVars, clockVars, jobVars, idemVars, engVars, listVars, userVars >>

Reset ==
    /\ cb' = reset(cb)
    /\ cbObs' = [cbObs EXCEPT !.op = "reset", !.prev = cb.state, !.streak = 0,
                              !.since = None, !.trials = 0]
    /\ UNCHANGED << smVars, clockVars, jobVars, idemVars, engVars, listVars, userVars >>

CbTick ==
    /\ Tick
    /\ cbObs' = [cbObs EXCEPT !.op = "tick", !.prev = cb.state]
    /\ UNCHANGED << smVars, cb, jobVars, idemVars, engVars, listVars, userVars >>

-----------------------------------------------------------------------------
(* Job store                                                               *)
(*                                                                         *)
(* One row of video_tasks.  A timestamp column holds the ordinal of the    *)
(* write that set it (the clock moves between two writes, so a column that *)
(* is written again changes its value).                                    *)

NoJob ==
    [exists |-> FALSE, engine |-> "mock", status |-> "queued", progress |-> 0,
     video_url |-> None, error_message |-> None, updated_at |-> None,
     processing_at |-> None, completed_at |-> None, failed_at |-> None,
     cancelled_at |-> None]

\* datetime.now() for a column that held o
Stamp(o) == IF o = None THEN Some(1) ELSE Some(o[1] + 1)

\* VideoTaskService.create_task: the inserted row
create_task(engine) ==
    [NoJob EXCEPT !.exists = TRUE, !.engine = engine, !.status = "queued",
                  !.progress = 0, !.updated_at = Some(1)]

\* VideoTaskService.update_task_status: the row after the unconditional UPDATE
update_task_status(row, status, progress, video_url, error_message) ==
    LET r1 == [row EXCEPT !.status = status, !.updated_at = Stamp(row.updated_at)]
        r2 == IF progress # None THEN [r1 EXCEPT !.progress = progress[1]] ELSE r1
        r3 == IF video_url # None THEN [r2 EXCEPT !.video_url = video_url] ELSE r2
        r4 == IF error_message # None THEN [r3 EXCEPT !.error_message = error_message]
              ELSE r3
    IN  IF ~row.exists THEN row
        ELSE CASE status = "processing" ->
                    [r4 EXCEPT !.processing_at = Stamp(row.processing_at)]
               [] status = "completed" ->
                    [r4 EXCEPT !.completed_at = Stamp(row.completed_at)]
               [] status = "failed" ->
                    [r4 EXCEPT !.failed_at = Stamp(row.failed_at)]
               [] status = "cancelled" ->
                    [r4 EXCEPT !.cancelled_at = Stamp(row.cancelled_at)]
               [] OTHER -> r4

\* mutant: every job counts as cancelled
is_task_cancelled_always(row) == TRUE

\* VideoTaskService.is_task_cancelled
is_task_cancelled(row) == row.exists /\ row.status = "cancelled"

\* runProgress is the progress value of the run's latest write that passed one
jobLogInit ==
    [writes |-> 0, writer |-> "none", cancelPersisted |-> FALSE, runProgress |-> None]

\* one write to the row by `who`
Logged(who) == [jobLog EXCEPT !.writes = jobLog.writes + 1, !.writer = who]

-----------------------------------------------------------------------------
(* HTTP handlers of the job: PATCH /{task_id}/status and POST /{task_id}/cancel *)
(*                                                                         *)
(* A handler body has no await between its read of the row and its write,  *)
(* so it runs as one step of the event loop; it cannot run while a         *)
(* background run is inside a synchronous section.  The requests come from *)
(* the owner of the job.                                                   *)

MaxRequests == 2

\* request bodies of PATCH /{task_id}/status: for every target status one that
\* meets its field constraints and some that do not
UpdateRequest(status, progress, videoUrl, errorMessage) ==
    [status |-> status, progress |-> progress, videoUrl |-> videoUrl,
     errorMessage |-> errorMessage]

UpdateRequests ==
    LET url == Some("https://cdn/video.mp4")
        err == Some("Generation failed")
    IN  {UpdateRequest("queued", None, None, None),
         UpdateRequest("processing", Some(50), None, None),
         UpdateRequest("processing", None, None, None),
         UpdateRequest("processing", Some(100), None, None),
         UpdateRequest("processing", Some(50), url, None),
         UpdateRequest("completed", Some(100), url, None),
         UpdateRequest("completed", Some(100), None, None),
         UpdateRequest("completed", Some(50), url, None),
         UpdateRequest("completed", None, url, None),
         UpdateRequest("failed", None, None, err),
         UpdateRequest("failed", None, None, None),
         UpdateRequest("failed", Some(50), url, err),
         UpdateRequest("cancelled", None, None, None),
         UpdateRequest("cancelled", None, None, err)}

httpInit ==
    [n |-> 0, op |-> "none", status |-> "queued", progress |-> None,
     videoUrl |-> None, errorMessage |-> None, code |-> 0]

\* positions of a background run that are not at an await: the section that
\* the event loop runs right after scheduling the run, and the sections that
\* follow a write without an await in between
SyncPcs == {"r_begin", "r_download_start", "r_fail", "m_fail"}

\* mutant: the field constraints are not checked
update_status_code_unchecked(row, r) ==
    IF ~row.exists THEN 404
    ELSE IF ~validate_transition(row.status, r.status) THEN 409
    ELSE 200

\* routers.update_task_status: the HTTP status code of the response
update_status_code(row, r) ==
    IF ~row.exists THEN 404
    ELSE IF ~validate_transition(row.status, r.status) THEN 409
    ELSE IF Truthy(validate_status_constraints(r.status, r.progress, r.videoUrl,
                                               r.errorMessage)) THEN 422
    ELSE 200

\* routers.cancel_video_task: the HTTP status code of the response
cancel_code(row) ==
    IF ~row.exists THEN 404
    ELSE IF ~validate_transition(row.status, "cancelled") THEN 409
    ELSE 200

UpdateStatus ==
    /\ http.n < MaxRequests
    /\ run.pc \notin SyncPcs
    /\ \E r \in UpdateRequests :
         LET code == update_status_code(job, r) IN
         /\ http' = [n |-> http.n + 1, op |-> "update", status |-> r.status,
                     progress |-> r.progress, videoUrl |-> r.videoUrl,
                     errorMessage |-> r.errorMessage, code |-> code]
         /\ IF code = 200
            THEN /\ job' = update_task_status(job, r.status, r.progress, r.videoUrl,
                                              r.errorMessage)
                 /\ jobLog' = Logged("http")
            ELSE UNCHANGED << job, jobLog >>
    /\ UNCHANGED << run, smVars, cbVars, clockVars, idemVars, engVars, listVars, userVars >>

CancelJob ==
    /\ http.n < MaxRequests
    /\ run.pc \notin SyncPcs
    /\ LET code == cancel_code(job) IN
         /\ http' = [n |-> http.n + 1, op |-> "cancel", status |-> "cancelled",
                     progress |-> None, videoUrl |-> None, errorMessage |-> None,
                     code |-> code]
         /\ IF code = 200
            THEN /\ job' = update_task_status(job, "cancelled", None, None, None)
                 /\ jobLog' = [Logged("http") EXCEPT !.cancelPersisted = TRUE]
            ELSE UNCHANGED << job, jobLog >>
    /\ UNCHANGED << run, smVars, cbVars, clockVars, idemVars, engVars, listVars, userVars >>

-----------------------------------------------------------------------------
(* Background processing runs                                              *)
(*                                                                         *)
(* A run gives up the event loop only at its awaits; run.pc names the      *)
(* await it is suspended at (or the synchronous section it is about to     *)
(* execute).  Every write of the row is one step.                          *)

RUNWAY_POLL_INTERVAL == 5

\* mutant: the polling loop runs one round longer
poll_time_one_more == 61 * RUNWAY_POLL_INTERVAL

RUNWAY_MAX_POLL_TIME == 300
\* the number of passes of 'while elapsed_time < RUNWAY_MAX_POLL_TIME'
MaxPolls == RUNWAY_MAX_POLL_TIME \div RUNWAY_POLL_INTERVAL
\* simulate_task_processing: for _ in range(3)
MOCK_WAIT_ROUNDS == 3

DEMO_VIDEO == "https://www.w3schools.com/html/mov_bbb.mp4"
SUPABASE_URL == "https://storage/signed/video.mp4"
RUNWAY_OUTPUT == "https://runway/output.mp4"

MSG_RUNWAY == "Video generation service error. Please try again later."
MSG_STORAGE == "Failed to save video. Please try again later."
MSG_GENERIC == "Video processing failed. Please try again."

\* texts that exceptions carry: the engine's failure reason or response body,
\* the storage service's answer, the job store's error
ENGINE_TEXT == "Runway generation failed: content policy (task rw_81, key sk-live)"
ENGINE_BODY_TEXT == "Runway API error: 400 - {\"error\": \"invalid promptImage\"}"
CANCELED_TEXT == "Runway task was canceled"
POLL_TIMEOUT_TEXT == "Runway task timed out after 300s"
CONFIG_TEXT == "RUNWAY_API_KEY is not configured"
STORAGE_TEXT == "Upload failed: bucket outputs quota exceeded"
STORE_TEXT == "relation video_tasks: permission denied for role service"
STORE_TIMEOUT_TEXT == "read timeout on db-7.internal"
STORE_CONNECTION_TEXT == "connection refused by db-7.internal"

\* str(e) of an exception of a kind raised by a client
ExceptionText(kind) ==
    CASE kind = "RunwayAPIError" -> ENGINE_BODY_TEXT
      [] kind = "RunwayConfigError" -> CONFIG_TEXT
      [] kind \in {"SupabaseUploadError", "SupabaseConfigError"} -> STORAGE_TEXT
      [] kind = "timeout" -> STORE_TIMEOUT_TEXT
      [] kind = "connection" -> STORE_CONNECTION_TEXT
      [] OTHER -> STORE_TEXT

ExceptionTexts ==
    {ENGINE_TEXT, ENGINE_BODY_TEXT, CANCELED_TEXT, POLL_TIMEOUT_TEXT, CONFIG_TEXT,
     STORAGE_TEXT, STORE_TEXT, STORE_TIMEOUT_TEXT, STORE_CONNECTION_TEXT}

\* the except clause of process_runway_task that catches an exception of a kind
ErrorMessageFor(kind) ==
    CASE kind \in {"RunwayAPIError", "RunwayConfigError"} -> MSG_RUNWAY
      [] kind \in {"SupabaseUploadError", "SupabaseConfigError"} -> MSG_STORAGE
      [] OTHER -> MSG_GENERIC

\* what get_task_status returns on HTTP 200, by the engine's status string
PollResults ==
    {[status |-> "PENDING", progress |-> 0, output_url |-> None],
     [status |-> "RUNNING", progress |-> 50, output_url |-> None],
     [status |-> "SUCCEEDED", progress |-> 100, output_url |-> Some(RUNWAY_OUTPUT)],
     [status |-> "SUCCEEDED", progress |-> 100, output_url |-> None],
     [status |-> "FAILED", progress |-> 0, output_url |-> None],
     [status |-> "CANCELED", progress |-> 0, output_url |-> None]}

\* progress = 10 + int(runway_result.progress * 0.8)
MapProgress(p) == 10 + ((p * 8) \div 10)

\* polls counts the calls of get_task_status that the run has made; error and
\* detail are the class and the text of the exception being handled
runInit == [pc |-> "none", elapsed_time |-> 0, rounds |-> 0, polls |-> 0,
            output_url |-> None, error |-> "none", detail |-> "", stopped |-> FALSE]

\* mutant: the except clause persists the text of the exception
error_msg_raw(kind, text) == text

\* error_msg of the except clauses of process_runway_task
error_msg(kind, text) == ErrorMessageFor(kind)

RunWrite(status, progress, video_url, error_message) ==
    /\ job' = update_task_status(job, status, progress, video_url, error_message)
    /\ jobLog' = [Logged("run") EXCEPT
                    !.runProgress = IF progress # None THEN progress ELSE @]

\* routers.create_video_task: insert the row and schedule the run of its engine
CreateVideoTask ==
    /\ ~job.exists
    /\ \E engine \in {"mock", "runway"} :
         /\ job' = create_task(engine)
         /\ run' = [runInit EXCEPT !.pc = IF engine = "mock" THEN "m_sleep" ELSE "r_begin"]
    /\ jobLog' = [jobLog EXCEPT !.writes = jobLog.writes + 1, !.writer = "create"]
    /\ UNCHANGED << http, smVars, cbVars, clockVars, idemVars, engVars, listVars, userVars >>

(* simulate_task_processing *)

\* first sleep is over: check cancellation, then queued -> processing
MockStart ==
    /\ run.pc = "m_sleep"
    /\ IF is_task_cancelled(job)
       THEN /\ run' = [run EXCEPT !.pc = "done", !.stopped = TRUE]
            /\ UNCHANGED << job, jobLog >>
       ELSE /\ RunWrite("processing", Some(10), None, None)
            /\ run' = [run EXCEPT !.pc = "m_wait"]
    /\ UNCHANGED << http, smVars, cbVars, clockVars, idemVars, engVars, listVars, userVars >>

\* one round of the waiting loop; the last round is followed by the completing write
MockRound ==
    /\ run.pc = "m_wait"
    /\ IF is_task_cancelled(job)
       THEN /\ run' = [run EXCEPT !.pc = "done", !.stopped = TRUE]
            /\ UNCHANGED << job, jobLog >>
       ELSE IF run.rounds + 1 < MOCK_WAIT_ROUNDS
       THEN /\ run' = [run EXCEPT !.rounds = run.rounds + 1]
            /\ UNCHANGED << job, jobLog >>
       ELSE /\ RunWrite("completed", Some(100), Some(DEMO_VIDEO), None)
            /\ run' = [run EXCEPT !.rounds = run.rounds + 1, !.pc = "done"]
    /\ UNCHANGED << http, smVars, cbVars, clockVars, idemVars, engVars, listVars, userVars >>

(* process_runway_task *)

\* Step 1: transition to processing, then await the engine's CreateJob
RunwayBegin ==
    /\ run.pc = "r_begin"
    /\ RunWrite("processing", Some(0), None, None)
    /\ run' = [run EXCEPT !.pc = "r_create"]
    /\ UNCHANGED << http, smVars, cbVars, clockVars, idemVars, engVars, listVars, userVars >>

\* Step 2: create_image_to_video_task returned; progress 10 and the first sleep
RunwayCreated ==
    /\ run.pc = "r_create"
    /\ RunWrite("processing", Some(10), None, None)
    /\ run' = [run EXCEPT !.pc = "r_sleep", !.elapsed_time = 0]
    /\ UNCHANGED << http, smVars, cbVars, clockVars, idemVars, engVars, listVars, userVars >>

\* Step 2: create_image_to_video_task raised
RunwayCreateFailed ==
    /\ run.pc = "r_create"
    /\ \E kind \in {"RunwayAPIError", "RunwayConfigError", "Exception"} :
         run' = [run EXCEPT !.pc = "r_fail", !.error = kind,
                            !.detail = ExceptionText(kind)]
    /\ UNCHANGED << job, jobLog, http, smVars, cbVars, clockVars, idemVars, engVars, listVars, userVars >>

\* Step 3: the sleep is over; check cancellation, then await get_task_status
RunwayWake ==
    /\ run.pc = "r_sleep"
    /\ IF is_task_cancelled(job)
       THEN run' = [run EXCEPT !.pc = "done", !.stopped = TRUE,
                               !.elapsed_time = run.elapsed_time + RUNWAY_POLL_INTERVAL]
       ELSE run' = [run EXCEPT !.pc = "r_poll", !.polls = run.polls + 1,
                               !.elapsed_time = run.elapsed_time + RUNWAY_POLL_INTERVAL]
    /\ UNCHANGED << job, jobLog, http, smVars, cbVars, clockVars, idemVars, engVars, listVars, userVars >>

\* Step 3: get_task_status returned; persist the mapped progress and branch on the status
RunwayPolled ==
    /\ run.pc = "r_poll"
    /\ \E res \in PollResults :
         /\ RunWrite("processing", Some(MapProgress(res.progress)), None, None)
         /\ run' =
              CASE res.status = "SUCCEEDED" ->
                     IF Truthy(res.output_url)
                     THEN [run EXCEPT !.pc = "r_download_start",
                                      !.output_url = res.output_url]
                     ELSE [run EXCEPT !.pc = "r_fail", !.error = "RunwayAPIError",
                                      !.detail = POLL_TIMEOUT_TEXT]
                [] res.status = "FAILED" ->
                     [run EXCEPT !.pc = "r_fail", !.error = "RunwayAPIError",
                                 !.detail = ENGINE_TEXT]
                [] res.status = "CANCELED" ->
                     [run EXCEPT !.pc = "r_fail", !.error = "RunwayAPIError",
                                 !.detail = CANCELED_TEXT]
                [] OTHER ->
                     IF run.elapsed_time < RUNWAY_MAX_POLL_TIME
                     THEN [run EXCEPT !.pc = "r_sleep"]
                     ELSE [run EXCEPT !.pc = "r_fail", !.error = "RunwayAPIError",
                                      !.detail = POLL_TIMEOUT_TEXT]
    /\ UNCHANGED << http, smVars, cbVars, clockVars, idemVars, engVars, listVars, userVars >>

\* Step 3: get_task_status raised
RunwayPollFailed ==
    /\ run.pc = "r_poll"
    /\ \E kind \in {"RunwayAPIError", "RunwayConfigError", "Exception"} :
         run' = [run EXCEPT !.pc = "r_fail", !.error = kind,
                            !.detail = ExceptionText(kind)]
    /\ UNCHANGED << job, jobLog, http, smVars, cbVars, clockVars, idemVars, engVars, listVars, userVars >>

\* Step 4: progress 92, then await the download
RunwayDownloadStart ==
    /\ run.pc = "r_download_start"
    /\ RunWrite("processing", Some(92), None, None)
    /\ run' = [run EXCEPT !.pc = "r_download"]
    /\ UNCHANGED << http, smVars, cbVars, clockVars, idemVars, engVars, listVars, userVars >>

\* Step 4: the download answered 200; progress 95, then await the upload
RunwayDownloaded ==
    /\ run.pc = "r_download"
    /\ RunWrite("processing", Some(95), None, None)
    /\ run' = [run EXCEPT !.pc = "r_upload"]
    /\ UNCHANGED << http, smVars, cbVars, clockVars, idemVars, engVars, listVars, userVars >>

\* Step 4: the download answered another status (RunwayAPIError) or raised
RunwayDownloadFailed ==
    /\ run.pc = "r_download"
    /\ \E kind \in {"RunwayAPIError", "Exception"} :
         run' = [run EXCEPT !.pc = "r_fail", !.error = kind,
                            !.detail = ExceptionText(kind)]
    /\ UNCHANGED << job, jobLog, http, smVars, cbVars, clockVars, idemVars, engVars, listVars, userVars >>

\* Steps 5 and 6: the upload returned; transition to completed
RunwayUploaded ==
    /\ run.pc = "r_upload"
    /\ RunWrite("completed", Some(100), Some(SUPABASE_URL), None)
    /\ run' = [run EXCEPT !.pc = "done"]
    /\ UNCHANGED << http, smVars, cbVars, clockVars, idemVars, engVars, listVars, userVars >>

\* Step 5: upload_video raised
RunwayUploadFailed ==
    /\ run.pc = "r_upload"
    /\ \E kind \in {"SupabaseUploadError", "SupabaseConfigError", "Exception"} :
         run' = [run EXCEPT !.pc = "r_fail", !.error = kind,
                            !.detail = ExceptionText(kind)]
    /\ UNCHANGED << job, jobLog, http, smVars, cbVars, clockVars, idemVars, engVars, listVars, userVars >>

\* the except clauses: write failed with the sanitized message
RunwayFail ==
    /\ run.pc = "r_fail"
    /\ RunWrite("failed", None, None, Some(error_msg(run.error, run.detail)))
    /\ run' = [run EXCEPT !.pc = "done", !.detail = ""]
    /\ UNCHANGED << http, smVars, cbVars, clockVars, idemVars, engVars, listVars, userVars >>

(* storage faults in the runs *)

MSG_TIMEOUT == "Processing timed out. Please try again."
MSG_NETWORK == "Network error during processing. Please try again."

\* the literals that the except clauses of the runs assign to error_msg
GenericMessages == {MSG_RUNWAY, MSG_STORAGE, MSG_GENERIC, MSG_TIMEOUT, MSG_NETWORK}

\* the except clause of simulate_task_processing: the message by the text of
\* the exception
MockErrorMessageFor(kind) ==
    CASE kind = "timeout" -> MSG_TIMEOUT
      [] kind \in {"network", "connection"} -> MSG_NETWORK
      [] OTHER -> MSG_GENERIC

\* the positions of the runs at which the next synchronous section calls the
\* job store (is_task_cancelled or update_task_status)
MockStorePcs == {"m_sleep", "m_wait"}
RunwayStorePcs ==
    {"r_begin", "r_create", "r_sleep", "r_poll", "r_download_start", "r_download",
     "r_upload"}

\* the write that the run's next section makes, if it gets that far (the write
\* after a poll depends on the engine's answer; there the error is taken to
\* come before the UPDATE)
NextRunWrite ==
    CASE run.pc = "m_sleep" -> << "processing", Some(10), None >>
      [] run.pc = "m_wait" -> << "completed", Some(100), Some(DEMO_VIDEO) >>
      [] run.pc = "r_begin" -> << "processing", Some(0), None >>
      [] run.pc = "r_create" -> << "processing", Some(10), None >>
      [] run.pc = "r_download_start" -> << "processing", Some(92), None >>
      [] run.pc = "r_download" -> << "processing", Some(95), None >>
      [] run.pc = "r_upload" -> << "completed", Some(100), Some(SUPABASE_URL) >>
      [] OTHER -> << "none", None, None >>

\* a store call of the section raises.  update_task_status reads the row,
\* updates it and reads it again: the error comes before the UPDATE (the row is
\* unchanged) or after it (the row is written).  The exception reaches the
\* except clause of the run.
StoreErrorIn(failPc, kinds) ==
    /\ \E kind \in kinds :
         run' = [run EXCEPT !.pc = failPc, !.error = kind,
                            !.detail = ExceptionText(kind)]
    /\ \/ UNCHANGED << job, jobLog >>
       \/ /\ NextRunWrite[1] # "none"
          /\ run.pc = "m_wait" => (~is_task_cancelled(job)
                                    /\ run.rounds + 1 >= MOCK_WAIT_ROUNDS)
          /\ RunWrite(NextRunWrite[1], NextRunWrite[2], NextRunWrite[3], None)

MockStoreError ==
    /\ run.pc \in MockStorePcs
    /\ StoreErrorIn("m_fail", {"Exception", "timeout", "connection"})
    /\ UNCHANGED << http, smVars, cbVars, clockVars, idemVars, engVars, listVars, userVars >>

RunwayStoreError ==
    /\ run.pc \in RunwayStorePcs
    /\ StoreErrorIn("r_fail", {"Exception"})
    /\ UNCHANGED << http, smVars, cbVars, clockVars, idemVars, engVars, listVars, userVars >>

\* the except clause of simulate_task_processing: write failed with the
\* sanitized message
MockFail ==
    /\ run.pc = "m_fail"
    /\ RunWrite("failed", None, None, Some(MockErrorMessageFor(run.error)))
    /\ run' = [run EXCEPT !.pc = "done", !.detail = ""]
    /\ UNCHANGED << http, smVars, cbVars, clockVars, idemVars, engVars, listVars, userVars >>

\* the write of an except clause raises before its UPDATE: the inner except
\* clause logs the error and the run returns
FailWriteStoreError ==
    /\ run.pc \in {"m_fail", "r_fail"}
    /\ run' = [run EXCEPT !.pc = "done", !.detail = ""]
    /\ UNCHANGED << job, jobLog, http, smVars, cbVars, clockVars, idemVars, engVars, listVars, userVars >>

-----------------------------------------------------------------------------
(* Idempotency guard                                                       *)
(*                                                                         *)
(* The idempotency_keys row of one (user_id, idempotency_key); the table   *)
(* holds at most one row per pair.  Create requests that carry this key    *)
(* run concurrently, possibly on several instances: every storage call is  *)
(* one step.                                                               *)

IDEMPOTENCY_TTL_HOURS == 24
SECONDS_PER_HOUR == 3600
TTL_SECONDS == IDEMPOTENCY_TTL_HOURS * SECONDS_PER_HOUR

\* seconds by which one clock advance may move the clock in the idempotency runs
IdemTimeSteps == {1, TTL_SECONDS}

\* number of clock advances in the idempotency runs
MaxIdemTicks == 2

\* number of create requests that carry the key, numbered in the order in
\* which they reach try_acquire_idempotency_lock
NumRequests == 2
Requests == 1..NumRequests

\* request bodies: the payload that is hashed holds title, prompt and engine only
Bodies ==
    {[title |-> "T", sourceImageUrl |-> "img1"],
     [title |-> "T", sourceImageUrl |-> "img2"],
     [title |-> "T2", sourceImageUrl |-> "img1"]}

\* create_video_task: the payload dict built from the request body
PayloadOf(body) == [title |-> body.title]

\* _hash_payload: sha256 of the payload's JSON, distinct for distinct payloads
hash_payload(payload) == IF payload.title = "T" THEN "9f2c4e01aa37b6d5" ELSE "07be55c91d40e2f8"

\* _get_ttl_cutoff
get_ttl_cutoff(t) == t - TTL_SECONDS

\* mutant: the SELECT has no filter on created_at
fetch_any_age(table, cutoff) == table

\* the SELECT ... gte(created_at, cutoff): the row, if it is within the TTL
fetch_within_ttl(table, cutoff) ==
    IF table # None /\ table[1].created_at >= cutoff THEN table ELSE None

\* mutant: the in-flight test comes before the payload comparison
acquire_decision_inflight_first(cached, payload_hash) ==
    IF cached.task_id = None THEN "wait"
    ELSE IF cached.payload_hash # payload_hash THEN "conflict"
    ELSE "hit"

\* try_acquire_idempotency_lock, lines 203-216: what to do with the fetched row
acquire_decision(cached, payload_hash) ==
    IF cached.payload_hash # payload_hash THEN "conflict"
    ELSE IF cached.task_id # None THEN "hit"
    ELSE "wait"

\* what the create handler does with an AcquireResult
caller_next(result) ==
    CASE result = "acquired" -> "create"
      [] result = "lock_timeout" -> "create"
      [] OTHER -> "done"

\* what the create handler does once the job exists: Finalize follows an
\* acquired lock
caller_after_create(result) ==
    IF result = "acquired" THEN "finalize" ELSE "done"

\* the body of a request that has not arrived yet
NoBody == [title |-> "", sourceImageUrl |-> ""]

\* waits and reads count the backoff sleeps and the SELECTs of the request; of
\* a request whose arrival is recorded (timed), at is the time at which it
\* arrived and after the requests that had been answered by then
reqInit ==
    [r \in Requests |->
        [pc |-> "new", body |-> NoBody,
         cutoff |-> 0, result |-> "none", existing |-> None, created |-> None,
         returned |-> None, waits |-> 0, reads |-> 0,
         timed |-> FALSE, at |-> 0, after |-> {}]]

\* the requests that have been answered
Answered == {o \in Requests : req[o].pc = "done"}

\* the request finished try_acquire_idempotency_lock with `result`
Acquired(r, result, existing) ==
    [req EXCEPT ![r].result = result, ![r].existing = existing,
                ![r].returned = existing, ![r].cutoff = 0,
                ![r].pc = caller_next(result)]

\* try_acquire_idempotency_lock, lines 159-184: hash, cutoff and the first INSERT
AcquireInsert(r) ==
    /\ req[r].pc = "new"
    /\ r > 1 => req[r - 1].pc # "new"
    /\ \E body \in Bodies :
         LET rq == [req EXCEPT ![r].body = body,
                               ![r].at = IF req[r].timed THEN now ELSE @,
                               ![r].after = IF req[r].timed THEN Answered ELSE @] IN
         IF idem = None
         THEN /\ idem' = Some([payload_hash |-> hash_payload(PayloadOf(body)),
                               task_id |-> None, created_at |-> now])
              /\ req' = [rq EXCEPT ![r].result = "acquired",
                                   ![r].pc = caller_next("acquired")]
         ELSE /\ req' = [rq EXCEPT ![r].cutoff = get_ttl_cutoff(now), ![r].pc = "fetch"]
              /\ UNCHANGED idem
    /\ UNCHANGED << tasks, smVars, cbVars, clockVars, jobVars, engVars, listVars, userVars >>

\* lines 186-216: fetch the row within the TTL and compare
AcquireFetch(r) ==
    /\ req[r].pc = "fetch"
    /\ LET found == fetch_within_ttl(idem, req[r].cutoff)
           h == hash_payload(PayloadOf(req[r].body))
       IN  IF found = None
           THEN \* expired or deleted: go on to insert again
                /\ UNCHANGED idem
                /\ req' = [req EXCEPT ![r].pc = "reinsert",
                                      ![r].reads = req[r].reads + 1]
           ELSE /\ UNCHANGED idem
                /\ req' = CASE acquire_decision(found[1], h) = "conflict" ->
                                 [Acquired(r, "conflict", None)
                                    EXCEPT ![r].reads = req[r].reads + 1]
                            [] acquire_decision(found[1], h) = "hit" ->
                                 [Acquired(r, "hit", found[1].task_id)
                                    EXCEPT ![r].reads = req[r].reads + 1]
                            [] OTHER -> [req EXCEPT ![r].cutoff = 0, ![r].pc = "sleep",
                                                    ![r].reads = req[r].reads + 1,
                                                    ![r].waits = req[r].waits + 1]
    /\ UNCHANGED << tasks, smVars, cbVars, clockVars, jobVars, engVars, listVars, userVars >>

\* lines 197-201: insert the prepared row (its created_at is the time of the
\* first INSERT) again; a duplicate-key error of this second INSERT reaches the
\* outer except clause, which fails open
AcquireReinsert(r) ==
    /\ req[r].pc = "reinsert"
    /\ idem' = IF idem = None
               THEN Some([payload_hash |-> hash_payload(PayloadOf(req[r].body)),
                          task_id |-> None,
                          created_at |-> req[r].cutoff + TTL_SECONDS])
               ELSE idem
    /\ req' = Acquired(r, "acquired", None)
    /\ UNCHANGED << tasks, smVars, cbVars, clockVars, jobVars, engVars, listVars, userVars >>

\* mutant: while the task_id is still null the request sleeps and reads again
AcquireRefetch_until_set(r) ==
    /\ req[r].pc = "sleep"
    /\ req' = IF idem # None /\ idem[1].task_id # None
              THEN [Acquired(r, "hit", idem[1].task_id)
                      EXCEPT ![r].reads = req[r].reads + 1]
              ELSE [req EXCEPT ![r].reads = req[r].reads + 1,
                               ![r].waits = req[r].waits + 1]
    /\ UNCHANGED << idem, tasks, smVars, cbVars, clockVars, jobVars, engVars, listVars, userVars >>

\* lines 220-239: the backoff sleep is over; read the row once more
AcquireRefetch(r) ==
    /\ req[r].pc = "sleep"
    /\ req' = IF idem # None /\ idem[1].task_id # None
              THEN [Acquired(r, "hit", idem[1].task_id)
                      EXCEPT ![r].reads = req[r].reads + 1]
              ELSE [Acquired(r, "lock_timeout", None)
                      EXCEPT ![r].reads = req[r].reads + 1]
    /\ UNCHANGED << idem, tasks, smVars, cbVars, clockVars, jobVars, engVars, listVars, userVars >>

\* VideoTaskService.create_task for a request that proceeds to create
CreateJobFor(r) ==
    /\ req[r].pc = "create"
    /\ LET id == Cardinality(tasks) + 1 IN
         /\ tasks' = tasks \cup {id}
         /\ req' = [req EXCEPT ![r].created = Some(id), ![r].returned = Some(id),
                               ![r].pc = caller_after_create(req[r].result)]
    /\ UNCHANGED << idem, smVars, cbVars, clockVars, jobVars, engVars, listVars, userVars >>

\* finalize_idempotency: UPDATE ... SET task_id WHERE user_id, idempotency_key
Finalize(r) ==
    /\ req[r].pc = "finalize"
    /\ idem' = IF idem = None THEN idem
               ELSE Some([idem[1] EXCEPT !.task_id = req[r].created])
    /\ req' = [req EXCEPT ![r].pc = "done"]
    /\ UNCHANGED << tasks, smVars, cbVars, clockVars, jobVars, engVars, listVars, userVars >>

\* mutant: a storage error is reported as a conflict
fail_closed_result == "conflict"

\* lines 241-252: what the outer except clause returns, AcquireResult(acquired=True)
fail_open_result == "acquired"

\* lines 241-252: a storage call of try_acquire_idempotency_lock raises an error
\* that is not a uniqueness violation; the except clause returns acquired
AcquireStorageError(r) ==
    /\ req[r].pc \in {"new", "fetch", "reinsert", "sleep"}
    /\ r > 1 => req[r - 1].pc # "new"
    /\ \E body \in Bodies :
         /\ req[r].pc # "new" => body = req[r].body
         /\ req' = [Acquired(r, fail_open_result, None) EXCEPT
                      ![r].body = body,
                      ![r].at = IF req[r].pc = "new" /\ req[r].timed THEN now ELSE @,
                      ![r].after = IF req[r].pc = "new" /\ req[r].timed
                                   THEN Answered ELSE @]
    /\ UNCHANGED << idem, tasks, smVars, cbVars, clockVars, jobVars, engVars, listVars, userVars >>

\* lines 282-284: the UPDATE of finalize_idempotency raises; it returns False
FinalizeStorageError(r) ==
    /\ req[r].pc = "finalize"
    /\ req' = [req EXCEPT ![r].pc = "done"]
    /\ UNCHANGED << idem, tasks, smVars, cbVars, clockVars, jobVars, engVars, listVars, userVars >>

\* cleanup_expired_keys: DELETE ... lt(created_at, cutoff)
Cleanup ==
    /\ idem # None
    /\ idem[1].created_at < get_ttl_cutoff(now)
    /\ idem' = None
    /\ UNCHANGED << tasks, req, smVars, cbVars, clockVars, jobVars, engVars, listVars, userVars >>

IdemTick ==
    /\ ticks < MaxIdemTicks
    /\ \E d \in IdemTimeSteps : now' = now + d
    /\ ticks' = ticks + 1
    /\ UNCHANGED << idem, tasks, req, smVars, cbVars, jobVars, engVars, listVars, userVars >>

-----------------------------------------------------------------------------
(* Retry policy                                                            *)

MAX_ATTEMPTS == 4
RETRYABLE_STATUS_CODES == {429, 500, 502, 503, 504}

\* exception classes: httpx.TimeoutException and httpx.ConnectError are
\* subclasses of httpx.RequestError, ValueError is not
ErrorClasses == {"RequestError", "TimeoutException", "ConnectError", "ValueError"}
NetworkErrors == {"RequestError", "TimeoutException", "ConnectError"}

\* mutant: 404 counts as retryable
is_retryable_not_found(error, status_code) ==
    IF error # None /\ error[1] \in NetworkErrors THEN TRUE
    ELSE IF status_code # None THEN status_code[1] \in RETRYABLE_STATUS_CODES \cup {404}
    ELSE FALSE

\* RetryPolicy.is_retryable(error, status_code); both arguments are optional
is_retryable(error, status_code) ==
    IF error # None /\ error[1] \in NetworkErrors THEN TRUE
    ELSE IF status_code # None THEN status_code[1] \in RETRYABLE_STATUS_CODES
    ELSE FALSE

\* mutant: the backoff grows linearly
get_delay_linear(attempt) ==
    IF attempt <= 1 THEN 0 ELSE attempt - 1

\* RetryPolicy.get_delay, in seconds
get_delay(attempt) ==
    IF attempt <= 1 THEN 0 ELSE 2 ^ (attempt - 2)

\* RetryPolicy.should_retry
should_retry(attempt) == attempt < MAX_ATTEMPTS

\* HTTP status codes passed to is_retryable
StatusCodes == {200, 201, 400, 401, 403, 404, 408, 429, 499, 500, 501, 502, 503, 504, 599, 600}

rpIdle == [error |-> None, status_code |-> None, done |-> FALSE, result |-> FALSE]

RpInputs ==
    [error : {None} \cup {Some(e) : e \in ErrorClasses},
     status_code : {None} \cup {Some(c) : c \in StatusCodes},
     done : {FALSE}, result : {FALSE}]

IsRetryable ==
    /\ ~rp.done
    /\ rp' = [rp EXCEPT !.done = TRUE, !.result = is_retryable(rp.error, rp.status_code)]
    /\ UNCHANGED << calls, smVars, cbVars, clockVars, jobVars, idemVars , listVars, userVars >>

-----------------------------------------------------------------------------
(* Engine adapter                                                          *)
(*                                                                         *)
(* create_image_to_video_task (CreateJob) and get_task_status (PollJob)    *)
(* share one circuit breaker.  An invocation runs without interruption up  *)
(* to its next await: the backoff sleep or the HTTP request.               *)

\* number of invocations, numbered in the order in which they start; they run
\* concurrently
NumCalls == 2
Calls == 1..NumCalls

\* status codes the engine answers with
EngineStatusCodes == {200, 201, 400, 401, 403, 404, 429, 501}

\* what comes back from one HTTP request: a status code, a transport error
\* (httpx.RequestError), or a success status whose body carries no task id
EngineResponses ==
    [kind : {"status"}, code : EngineStatusCodes]
       \cup {[kind |-> "RequestError", code |-> 0]}
       \cup {[kind |-> "no_task_id", code |-> 200]}

EngineFunctions == {"create", "poll"}

\* the status codes each function takes as success
SuccessCodes(kind) == IF kind = "create" THEN {200, 201} ELSE {200}

\* requests, successes and failures count the HTTP requests sent and the calls
\* of record_success and record_failure made by the invocation.  The two
\* functions run the same code except for the status codes they take as
\* success and the check of the task id, so which of the two was invoked is an
\* input of the step that handles a reply and is not part of the state.
callInit ==
    [c \in Calls |->
        [pc |-> "new", attempt |-> 0, delay |-> 0, wake_at |-> 0,
         requests |-> 0, successes |-> 0, failures |-> 0, outcome |-> "none"]]

\* breaker states at the start: fresh, one failure short of the threshold, and
\* open since time 0
EngineBreakerStates ==
    {CircuitBreakerInit,
     [state |-> "CLOSED", failure_count |-> FAILURE_THRESHOLD - 1,
      last_failure_time |-> Some(0), opened_at |-> None],
     [state |-> "OPEN", failure_count |-> FAILURE_THRESHOLD,
      last_failure_time |-> Some(0), opened_at |-> Some(0)]}

\* the top of the retry loop for attempt n: sleep get_delay(n) if positive, then
\* send the request
BeginAttempt(call, n) ==
    IF get_delay(n) > 0
    THEN [call EXCEPT !.attempt = n, !.delay = get_delay(n), !.pc = "sleeping",
                      !.wake_at = now + get_delay(n)]
    ELSE [call EXCEPT !.attempt = n, !.delay = get_delay(n), !.pc = "awaiting",
                      !.requests = @ + 1]

\* the invocation returns or raises
Finish(call, outcome) ==
    [call EXCEPT !.pc = "done", !.outcome = outcome]

\* lines 162-195 / 274-294: the breaker gate, then the first attempt
EngineStart(c) ==
    /\ calls[c].pc = "new"
    /\ c > 1 => calls[c - 1].pc # "new"
    /\ cb' = get_state_locked(cb, now)
    /\ calls' = [calls EXCEPT ![c] =
                   IF can_attempt_result(cb'.state)
                   THEN BeginAttempt(calls[c], 1)
                   ELSE Finish(calls[c], "circuit_open")]
    /\ UNCHANGED << cbObs, rp, smVars, clockVars, jobVars, idemVars , listVars, userVars >>

\* the timer of the backoff sleep has fired: send the request
EngineWake(c) ==
    /\ calls[c].pc = "sleeping"
    /\ calls[c].wake_at = 0
    /\ calls' = [calls EXCEPT ![c].pc = "awaiting", ![c].requests = @ + 1]
    /\ UNCHANGED << rp, smVars, cbVars, clockVars, jobVars, idemVars , listVars, userVars >>

\* mutant: the failure of an exhausted invocation is not counted
Exhausted_uncounted(call) ==
    Finish(call, "exhausted")

\* the loop is over without a success: record_failure and raise
Exhausted(call) ==
    [Finish(call, "exhausted") EXCEPT !.failures = @ + 1]

\* lines 195-251 / 294-375: `resp` answers the request of the current attempt
\* of an invocation of function `kind`
EngineReply(c, kind, resp) ==
    /\ calls[c].pc = "awaiting"
    /\ LET call == calls[c]
           n == calls[c].attempt
       IN
       IF resp.kind = "no_task_id"
       THEN \* create: RunwayAPIError raised inside the try block, not caught
            /\ kind = "create"
            /\ calls' = [calls EXCEPT ![c] = Finish(call, "no_task_id")]
            /\ UNCHANGED cb
       ELSE IF resp.kind = "RequestError"
       THEN IF ~should_retry(n)
            THEN /\ calls' = [calls EXCEPT ![c] = Exhausted(call)]
                 /\ cb' = record_failure(cb, now)
            ELSE /\ calls' = [calls EXCEPT ![c] = BeginAttempt(call, n + 1)]
                 /\ UNCHANGED cb
       ELSE IF resp.code \in SuccessCodes(kind)
       THEN /\ calls' = [calls EXCEPT ![c] =
                           [Finish(call, "ok") EXCEPT !.successes = @ + 1]]
            /\ cb' = record_success(cb)
       ELSE IF ~is_retryable(None, Some(resp.code))
       THEN /\ calls' = [calls EXCEPT ![c] =
                           [Finish(call, "permanent") EXCEPT !.failures = @ + 1]]
            /\ cb' = record_failure(cb, now)
       ELSE IF n + 1 <= MAX_ATTEMPTS
       THEN /\ calls' = [calls EXCEPT ![c] = BeginAttempt(call, n + 1)]
            /\ UNCHANGED cb
       ELSE /\ calls' = [calls EXCEPT ![c] = Exhausted(call)]
            /\ cb' = record_failure(cb, now)
    /\ UNCHANGED << cbObs, rp, smVars, clockVars, jobVars, idemVars , listVars, userVars >>

EngineResponse(c) ==
    \E kind \in EngineFunctions : \E resp \in EngineResponses : EngineReply(c, kind, resp)

\* seconds by which one clock advance moves the clock while invocations run:
\* the longest backoff delay, and the cooldown of the breaker
EngineTimeSteps == {get_delay(MAX_ATTEMPTS), COOLDOWN_SECONDS}

\* number of clock advances while invocations run
MaxEngineTicks == 3

\* the clock advances; the event loop fires the sleep timers that are due
EngineTick ==
    /\ ticks < MaxEngineTicks
    /\ \E d \in EngineTimeSteps : now' = now + d
    /\ ticks' = ticks + 1
    /\ calls' = [c \in Calls |->
                   IF calls[c].pc = "sleeping" /\ calls[c].wake_at <= now'
                   THEN [calls[c] EXCEPT !.wake_at = 0]
                   ELSE calls[c]]
    /\ UNCHANGED << rp, smVars, cbVars, jobVars, idemVars , listVars, userVars >>

-----------------------------------------------------------------------------
(* Concurrency limit of a user                                             *)
(*                                                                         *)
(* The video_tasks rows of one user (their status), the mock runs of these *)
(* jobs, and the user's create requests.  create_video_task has no await   *)
(* between count_active_tasks and create_task, so on one server process    *)
(* the two calls are one step; requests handled by different processes     *)
(* interleave at every call of the job store.                              *)

MAX_CONCURRENT_TASKS_PER_USER == 3

\* number of create requests of the user, numbered in the order of arrival
NumCreates == 4
Creates == 1..NumCreates

\* number of status-update and cancel requests of the user
MaxUserRequests == 1

\* server processes that handle the requests
Instances == {1, 2}

UserStatuses == Statuses \cup {"none"}

\* the status column as a row for is_task_cancelled
RowOf(status) == [exists |-> status # "none", status |-> status]

\* VideoTaskService.count_active_tasks
count_active_tasks(rows) ==
    Cardinality({j \in DOMAIN rows : rows[j] \in {"queued", "processing"}})

\* create_video_task: active_count >= MAX_CONCURRENT_TASKS_PER_USER
limit_reached(active_count) == active_count >= MAX_CONCURRENT_TASKS_PER_USER

\* the id of the next row: rows are numbered in the order of their INSERT
NextJobId(rows) == Cardinality({j \in DOMAIN rows : rows[j] # "none"}) + 1

usrIdle ==
    [rows |-> [j \in Creates |-> "none"],
     runs |-> [j \in Creates |-> "none"],
     creates |-> [r \in Creates |->
                    [pc |-> "new", instance |-> 0, active_count |-> 0, code |-> 0,
                     job |-> 0]],
     n |-> 0]

\* the rows and runs after create_task and the scheduling of the run
InsertFor(r) ==
    LET id == NextJobId(usr.rows) IN
    [usr EXCEPT !.rows[id] = "queued", !.runs[id] = "m_sleep",
                !.creates[r].pc = "done", !.creates[r].code = 201,
                !.creates[r].job = id]

\* create_video_task on a process: count the active jobs, answer 429 at the
\* limit; otherwise create the job.  The process runs the handler to its end
\* unless another process is chosen to have its store calls interleaved.
UserCreate(r) ==
    /\ usr.creates[r].pc = "new"
    /\ r > 1 => usr.creates[r - 1].pc # "new"
    /\ \E i \in Instances :
         /\ \A o \in Creates : usr.creates[o].pc = "counted"
                                   => usr.creates[o].instance # i
         /\ LET n == count_active_tasks(usr.rows)
                c == [usr EXCEPT !.creates[r].instance = i,
                                 !.creates[r].active_count = n]
            IN  IF limit_reached(n)
                THEN usr' = [c EXCEPT !.creates[r].pc = "done", !.creates[r].code = 429]
                ELSE \/ usr' = [c EXCEPT !.creates[r].pc = "counted"]
                     \/ usr' = [InsertFor(r) EXCEPT !.creates[r].instance = i,
                                                    !.creates[r].active_count = n]
    /\ UNCHANGED << smVars, cbVars, clockVars, jobVars, idemVars, engVars, listVars >>

\* create_task of a request whose count was taken before another process's
\* store call
UserInsert(r) ==
    /\ usr.creates[r].pc = "counted"
    /\ usr' = InsertFor(r)
    /\ UNCHANGED << smVars, cbVars, clockVars, jobVars, idemVars, engVars, listVars >>

\* simulate_task_processing: the first sleep is over
UserRunStart(j) ==
    /\ usr.runs[j] = "m_sleep"
    /\ IF is_task_cancelled(RowOf(usr.rows[j]))
       THEN usr' = [usr EXCEPT !.runs[j] = "done"]
       ELSE usr' = [usr EXCEPT !.rows[j] = "processing", !.runs[j] = "m_wait"]
    /\ UNCHANGED << smVars, cbVars, clockVars, jobVars, idemVars, engVars, listVars >>

\* simulate_task_processing: the waiting loop is over (a cancellation seen in
\* one of its rounds stops the run)
UserRunFinish(j) ==
    /\ usr.runs[j] = "m_wait"
    /\ IF is_task_cancelled(RowOf(usr.rows[j]))
       THEN usr' = [usr EXCEPT !.runs[j] = "done"]
       ELSE usr' = [usr EXCEPT !.rows[j] = "completed", !.runs[j] = "done"]
    /\ UNCHANGED << smVars, cbVars, clockVars, jobVars, idemVars, engVars, listVars >>

\* PATCH /{task_id}/status and POST /{task_id}/cancel on one of the user's jobs
UserUpdateStatus(j) ==
    /\ usr.n < MaxUserRequests
    /\ usr.rows[j] # "none"
    /\ \E target \in Statuses :
         usr' = [usr EXCEPT !.n = usr.n + 1,
                            !.rows[j] = IF validate_transition(usr.rows[j], target)
                                        THEN target ELSE @]
    /\ UNCHANGED << smVars, cbVars, clockVars, jobVars, idemVars, engVars, listVars >>

-----------------------------------------------------------------------------
(* Cursors of the job list                                                 *)
(*                                                                         *)
(* A Python str is a sequence of tokens: the separator "|" and pieces of   *)
(* text without a separator in them.  A cursor string is either the        *)
(* base64 of a text or not valid base64.                                   *)

Sep == "|"

\* created_at values of the jobs
Timestamps == {0, 1}

\* datetime.isoformat()
isoformat(t) == << IF t = 0 THEN "2025-01-01T00:00:00+00:00" ELSE "2025-01-01T00:00:01+00:00" >>

\* datetime.fromisoformat accepts the text
IsIsoDatetime(str) == \E t \in Timestamps : str = isoformat(t)

\* safe_parse_datetime: the parsed datetime, or datetime.now() for an empty
\* text and for a text that fromisoformat rejects
safe_parse_datetime(dt_str, t_now) ==
    IF dt_str = << >> THEN t_now
    ELSE IF IsIsoDatetime(dt_str) THEN CHOOSE t \in Timestamps : dt_str = isoformat(t)
    ELSE t_now

\* str.split("|")
RECURSIVE split(_)
split(str) ==
    IF \A i \in 1..Len(str) : str[i] # Sep THEN << str >>
    ELSE LET i == CHOOSE k \in 1..Len(str) :
                     str[k] = Sep /\ \A j \in 1..(k - 1) : str[j] # Sep
         IN  << SubSeq(str, 1, i - 1) >> \o split(SubSeq(str, i + 1, Len(str)))

\* "|".join(parts), the f-string of encode_cursor
RECURSIVE join(_)
join(parts) ==
    IF Len(parts) = 0 THEN << >>
    ELSE IF Len(parts) = 1 THEN parts[1]
    ELSE parts[1] \o << Sep >> \o join(Tail(parts))

\* base64.urlsafe_b64encode(raw.encode()).decode()
urlsafe_b64encode(raw) == [b64 |-> TRUE, text |-> raw]

\* base64.urlsafe_b64decode(cursor.encode()).decode(): the text, or None when
\* it raises
urlsafe_b64decode(cursor) == IF cursor.b64 THEN Some(cursor.text) ELSE None

\* q or '' / status or ''
OrEmpty(o) == IF o = None THEN << >> ELSE o[1]

\* parts[i] if parts[i] else None
NoneIfEmpty(str) == IF str = << >> THEN None ELSE Some(str)

encode_cursor(created_at, task_id, q, status, sort) ==
    urlsafe_b64encode(join(<< isoformat(created_at), task_id, OrEmpty(q),
                              OrEmpty(status), sort >>))

decode_cursor(cursor, t_now) ==
    LET raw == urlsafe_b64decode(cursor) IN
    IF raw = None THEN None
    ELSE LET parts == split(raw[1]) IN
         IF Len(parts) = 2 THEN None
         ELSE IF Len(parts) = 5
         THEN Some([created_at |-> safe_parse_datetime(parts[1], t_now),
                    task_id |-> parts[2],
                    q |-> NoneIfEmpty(parts[3]),
                    status |-> NoneIfEmpty(parts[4]),
                    sort |-> parts[5]])
         ELSE None

\* ids, search strings, status filters and sort orders
\* in ascending order of the id column
TaskIdSeq == << << "vt_1" >>, << "vt_2" >>, << "vt_3" >> >>
TaskIds == {TaskIdSeq[i] : i \in 1..Len(TaskIdSeq)}
SearchStrings == {None, Some(<< >>), Some(<< "a" >>), Some(<< "a", Sep, "b" >>)}
StatusFilters == {None, Some(<< "queued" >>), Some(<< "completed" >>)}
Sorts == {<< "createdAt_desc" >>, << "createdAt_asc" >>}

\* largest number of "|"-separated parts of a cursor text given to decode_cursor
MaxParts == 6

\* the parts such a text is made of
PartTexts == {<< >>, isoformat(0), << "not-a-date" >>}

\* the cursor strings given to decode_cursor
CursorStrings ==
    {[b64 |-> FALSE, text |-> << "not_valid_base64!!!" >>]}
       \cup {urlsafe_b64encode(join(parts)) :
                parts \in UNION {[1..n -> PartTexts] : n \in 1..MaxParts}}

NoCursor == [b64 |-> FALSE, text |-> << >>]

curIdle ==
    [op |-> "none", created_at |-> 0, task_id |-> << >>, q |-> None, status |-> None,
     sort |-> << >>, cursor |-> NoCursor, done |-> FALSE, out |-> None]

CurInputs ==
    {[curIdle EXCEPT !.op = "roundtrip", !.created_at = t, !.task_id = id, !.q = q,
                     !.status = st, !.sort = so] :
        t \in Timestamps, id \in TaskIds, q \in SearchStrings, st \in StatusFilters,
        so \in Sorts}
       \cup {[curIdle EXCEPT !.op = "decode", !.cursor = c] : c \in CursorStrings}

\* decode_cursor(encode_cursor(...))
RoundTrip ==
    /\ cur.op = "roundtrip" /\ ~cur.done
    /\ cur' = [cur EXCEPT !.done = TRUE,
                          !.cursor = encode_cursor(cur.created_at, cur.task_id, cur.q,
                                                   cur.status, cur.sort),
                          !.out = decode_cursor(encode_cursor(cur.created_at, cur.task_id,
                                                              cur.q, cur.status, cur.sort),
                                                now)]
    /\ UNCHANGED << pg, smVars, cbVars, clockVars, jobVars, idemVars, engVars, userVars >>

DecodeCursor ==
    /\ cur.op = "decode" /\ ~cur.done
    /\ cur' = [cur EXCEPT !.done = TRUE, !.out = decode_cursor(cur.cursor, now)]
    /\ UNCHANGED << pg, smVars, cbVars, clockVars, jobVars, idemVars, engVars, userVars >>

-----------------------------------------------------------------------------
(* GET /api/video-tasks: the list of one owner's jobs                      *)
(*                                                                         *)
(* The jobs do not change while the client pages through them.  The client *)
(* sends the nextCursor of the last response with its own filters, or with *)
(* other filters.                                                          *)

JobIds == 1..Len(TaskIdSeq)
Titles == {<< "a" >>, << "a", Sep, "b" >>}
JobStatuses == {<< "queued" >>, << "completed" >>}

\* the rows of video_tasks of the owner
JobTables ==
    [JobIds -> [created_at : Timestamps, status : JobStatuses, title : Titles]]

\* the q of a request after the router has stripped it: None or not empty
NormalizedSearchStrings == {None, Some(<< "a" >>), Some(<< "a", Sep, "b" >>)}

\* page sizes
Limits == {1, 2}

\* position of an id in the order of the id column
IdOrd(id) == CHOOSE i \in JobIds : TaskIdSeq[i] = id

\* title ILIKE %q%
Contains(title, q) ==
    \E i \in 1..(Len(title) - Len(q) + 1) : SubSeq(title, i, i + Len(q) - 1) = q

\* get_tasks: the status filter and the search on title or id
Matches(table, i, q, status) ==
    /\ status # None => table[i].status = status[1]
    /\ q # None => (Contains(table[i].title, q[1]) \/ TaskIdSeq[i] = q[1])

\* (created_at, id) as one sort key
RowKey(created_at, i) == created_at * (Len(TaskIdSeq) + 1) + i

\* get_tasks: the rows before (desc) or after (asc) the cursor position
AfterCursor(table, i, cursor_pos, is_desc) ==
    cursor_pos = None
       \/ IF is_desc
          THEN RowKey(table[i].created_at, i) < cursor_pos[1]
          ELSE RowKey(table[i].created_at, i) > cursor_pos[1]

\* ORDER BY created_at, id in the direction of the sort
RECURSIVE Ordered(_, _, _)
Ordered(table, ids, is_desc) ==
    IF ids = {} THEN << >>
    ELSE LET first == CHOOSE i \in ids : \A j \in ids :
                         IF is_desc
                         THEN RowKey(table[i].created_at, i) >= RowKey(table[j].created_at, j)
                         ELSE RowKey(table[i].created_at, i) <= RowKey(table[j].created_at, j)
         IN  << first >> \o Ordered(table, ids \ {first}, is_desc)

Take(seq, n) == SubSeq(seq, 1, IF Len(seq) < n THEN Len(seq) ELSE n)

\* VideoTaskService.get_tasks: the page and its next cursor
get_tasks(table, limit, cursor_pos, q, status, sort) ==
    LET is_desc == sort = << "createdAt_desc" >>
        ids == {i \in JobIds : /\ Matches(table, i, q, status)
                               /\ AfterCursor(table, i, cursor_pos, is_desc)}
        all_tasks == Take(Ordered(table, ids, is_desc), limit + 1)
        has_more == Len(all_tasks) > limit
        page == Take(all_tasks, limit)
        last_task == page[Len(page)]
    IN  [items |-> page,
         next_cursor |->
            IF has_more /\ Len(page) > 0
            THEN Some(encode_cursor(table[last_task].created_at, TaskIdSeq[last_task],
                                    q, status, sort))
            ELSE None]

\* routers.get_video_tasks: decode and validate the cursor, then query
get_video_tasks(table, limit, cursor, q, status, sort, t_now) ==
    LET decoded == IF cursor = None THEN None ELSE decode_cursor(cursor[1], t_now) IN
    IF cursor # None /\ decoded = None
    THEN [code |-> "INVALID_CURSOR", items |-> << >>, next_cursor |-> None]
    ELSE IF cursor # None
            /\ (\/ OrEmpty(decoded[1].q) # OrEmpty(q)
                \/ OrEmpty(decoded[1].status) # OrEmpty(status)
                \/ decoded[1].sort # sort)
    THEN [code |-> "CURSOR_FILTER_MISMATCH", items |-> << >>, next_cursor |-> None]
    ELSE LET pos == IF cursor = None THEN None
                    ELSE Some(RowKey(decoded[1].created_at, IdOrd(decoded[1].task_id)))
             res == get_tasks(table, limit, pos, q, status, sort)
         IN  [code |-> "ok", items |-> res.items, next_cursor |-> res.next_cursor]

noResp == [kind |-> "none", had_cursor |-> FALSE, code |-> "none", n |-> 0]

pgIdle ==
    [pc |-> "none", table |-> << >>, q |-> None, status |-> None, sort |-> << >>,
     limit |-> 0, cursor |-> None, seen |-> << >>, resp |-> noResp]

PgInputs ==
    {[pgIdle EXCEPT !.pc = "paging", !.table = tb, !.q = q, !.status = st, !.sort = so,
                    !.limit = l] :
        tb \in JobTables, q \in NormalizedSearchStrings, st \in StatusFilters,
        so \in Sorts, l \in Limits}

\* the client asks for the next page with its own filters
ListPage ==
    /\ pg.pc = "paging"
    /\ LET r == get_video_tasks(pg.table, pg.limit, pg.cursor, pg.q, pg.status, pg.sort,
                                now)
       IN  pg' = [pg EXCEPT
                    !.resp = [kind |-> "same", had_cursor |-> pg.cursor # None,
                              code |-> r.code, n |-> Len(r.items)],
                    !.seen = pg.seen \o r.items,
                    !.cursor = r.next_cursor,
                    !.pc = IF r.code # "ok" THEN "error"
                           ELSE IF r.next_cursor = None THEN "done" ELSE "paging"]
    /\ UNCHANGED << cur, smVars, cbVars, clockVars, jobVars, idemVars, engVars, userVars >>

\* the client sends the cursor it holds with other filters
ListOtherFilters ==
    /\ pg.pc = "paging"
    /\ pg.cursor # None
    /\ pg.resp.kind # "other"
    /\ \E q \in NormalizedSearchStrings, st \in StatusFilters, so \in Sorts :
         /\ << q, st, so >> # << pg.q, pg.status, pg.sort >>
         /\ LET r == get_video_tasks(pg.table, pg.limit, pg.cursor, q, st, so, now)
            IN  pg' = [pg EXCEPT
                         !.resp = [kind |-> "other", had_cursor |-> TRUE,
                                   code |-> r.code, n |-> Len(r.items)]]
    /\ UNCHANGED << cur, smVars, cbVars, clockVars, jobVars, idemVars, engVars, userVars >>

-----------------------------------------------------------------------------
(* Specifications                                                          *)

SmInit ==
    /\ sm \in SmInputs
    /\ cb = CircuitBreakerInit /\ cbObs = cbObsInit
    /\ now = 0 /\ ticks = 0
    /\ job = NoJob /\ jobLog = jobLogInit /\ run = runInit /\ http = httpInit
    /\ idem = None /\ tasks = {} /\ req = reqInit
    /\ rp = rpIdle /\ calls = callInit
    /\ cur = curIdle /\ pg = pgIdle
    /\ usr = usrIdle

BaseInit ==
    /\ sm = smIdle
    /\ cb = CircuitBreakerInit /\ cbObs = cbObsInit
    /\ now = 0 /\ ticks = 0
    /\ job = NoJob /\ jobLog = jobLogInit /\ run = runInit /\ http = httpInit
    /\ idem = None /\ tasks = {} /\ req = reqInit
    /\ rp = rpIdle /\ calls = callInit
    /\ cur = curIdle /\ pg = pgIdle
    /\ usr = usrIdle

\* the retry policy applied to every input
RetryInit ==
    /\ sm = smIdle
    /\ cb = CircuitBreakerInit /\ cbObs = cbObsInit
    /\ now = 0 /\ ticks = 0
    /\ job = NoJob /\ jobLog = jobLogInit /\ run = runInit /\ http = httpInit
    /\ idem = None /\ tasks = {} /\ req = reqInit
    /\ rp \in RpInputs /\ calls = callInit
    /\ cur = curIdle /\ pg = pgIdle
    /\ usr = usrIdle

\* the engine adapter on a breaker in one of its starting states
EngineInit ==
    /\ sm = smIdle
    /\ cb \in EngineBreakerStates /\ cbObs = cbObsInit
    /\ now = 0 /\ ticks = 0
    /\ job = NoJob /\ jobLog = jobLogInit /\ run = runInit /\ http = httpInit
    /\ idem = None /\ tasks = {} /\ req = reqInit
    /\ rp = rpIdle /\ calls = callInit
    /\ cur = curIdle /\ pg = pgIdle
    /\ usr = usrIdle

\* the cursor functions applied to every input
CursorInit ==
    /\ sm = smIdle
    /\ cb = CircuitBreakerInit /\ cbObs = cbObsInit
    /\ now = 0 /\ ticks = 0
    /\ job = NoJob /\ jobLog = jobLogInit /\ run = runInit /\ http = httpInit
    /\ idem = None /\ tasks = {} /\ req = reqInit
    /\ rp = rpIdle /\ calls = callInit
    /\ cur \in CurInputs /\ pg = pgIdle
    /\ usr = usrIdle

\* a client that pages through any table of jobs with any filters
ListInit ==
    /\ sm = smIdle
    /\ cb = CircuitBreakerInit /\ cbObs = cbObsInit
    /\ now = 0 /\ ticks = 0
    /\ job = NoJob /\ jobLog = jobLogInit /\ run = runInit /\ http = httpInit
    /\ idem = None /\ tasks = {} /\ req = reqInit
    /\ rp = rpIdle /\ calls = callInit
    /\ cur = curIdle /\ pg \in PgInputs
    /\ usr = usrIdle

ListNext == ListPage \/ ListOtherFilters

RetryNext == IsRetryable

CursorNext == RoundTrip \/ DecodeCursor

EngineNext ==
    \/ \E c \in Calls : EngineStart(c)
    \/ \E c \in Calls : EngineWake(c)
    \/ \E c \in Calls : EngineResponse(c)
    \/ EngineTick

SmNext == ValidateTransition \/ ValidateFieldConstraints

CbNext == CanAttempt \/ RecordSuccess \/ RecordFailure \/ GetStatus \/ Reset \/ CbTick

JobNext ==
    \/ CreateVideoTask
    \/ UpdateStatus
    \/ CancelJob
    \/ MockStart
    \/ MockRound
    \/ RunwayBegin
    \/ RunwayCreated
    \/ RunwayCreateFailed
    \/ RunwayWake
    \/ RunwayPolled
    \/ RunwayPollFailed
    \/ RunwayDownloadStart
    \/ RunwayDownloaded
    \/ RunwayDownloadFailed
    \/ RunwayUploaded
    \/ RunwayUploadFailed
    \/ RunwayFail

\* a job, its mock run and the requests from outside
MockNext ==
    \/ CreateVideoTask
    \/ UpdateStatus
    \/ CancelJob
    \/ MockStart
    \/ MockRound

JobFaultNext ==
    \/ MockStoreError
    \/ RunwayStoreError
    \/ MockFail
    \/ FailWriteStoreError

IdemNext ==
    \/ \E r \in Requests : AcquireInsert(r)
    \/ \E r \in Requests : AcquireFetch(r)
    \/ \E r \in Requests : AcquireReinsert(r)
    \/ \E r \in Requests : AcquireRefetch(r)
    \/ \E r \in Requests : CreateJobFor(r)
    \/ \E r \in Requests : Finalize(r)
    \/ Cleanup
    \/ IdemTick

IdemFaultNext ==
    \/ \E r \in Requests : AcquireStorageError(r)
    \/ \E r \in Requests : FinalizeStorageError(r)

\* the validators applied to every input
SpecSM == SmInit /\ [][SmNext]_vars

\* the circuit breaker under any order of its operations
SpecCB == BaseInit /\ [][CbNext]_vars

\* one job, its background run and the status-update and cancel requests
SpecJob == BaseInit /\ [][JobNext]_vars

\* the mock run under the event loop, which resumes a coroutine whose sleep
\* is over
SpecMockFair ==
    BaseInit /\ [][MockNext]_vars /\ WF_vars(MockStart) /\ WF_vars(MockRound)

\* the same, with job-store calls of the run that may fail
SpecJobFaults == BaseInit /\ [][JobNext \/ JobFaultNext]_vars

\* create requests that carry one idempotency key
SpecIdem == BaseInit /\ [][IdemNext]_vars

\* the same, with storage calls that may fail
SpecIdemFaults == BaseInit /\ [][IdemNext \/ IdemFaultNext]_vars

\* the key has been used before: its request inserted the record at time 0,
\* created job 1 and finalized; the record is still stored and its TTL is over.
\* The arrivals of the requests that follow are recorded.
StaleRecord ==
    [payload_hash |-> hash_payload(PayloadOf([title |-> "T", sourceImageUrl |-> "img1"])),
     task_id |-> Some(1), created_at |-> 0]

StaleInit ==
    /\ sm = smIdle
    /\ cb = CircuitBreakerInit /\ cbObs = cbObsInit
    /\ now = TTL_SECONDS + 1 /\ ticks = 0
    /\ job = NoJob /\ jobLog = jobLogInit /\ run = runInit /\ http = httpInit
    /\ idem = Some(StaleRecord) /\ tasks = {1}
    /\ req = [r \in Requests |-> [reqInit[r] EXCEPT !.timed = TRUE]]
    /\ rp = rpIdle /\ calls = callInit
    /\ cur = curIdle /\ pg = pgIdle
    /\ usr = usrIdle

\* create requests that carry a key whose earlier record has expired
SpecIdemStale == StaleInit /\ [][IdemNext]_vars

UserNext ==
    \/ \E r \in Creates : UserCreate(r)
    \/ \E r \in Creates : UserInsert(r)
    \/ \E j \in Creates : UserRunStart(j)
    \/ \E j \in Creates : UserRunFinish(j)
    \/ \E j \in Creates : UserUpdateStatus(j)

\* the create requests of one user, the jobs they create and the runs of these
SpecUser == BaseInit /\ [][UserNext]_vars

\* RetryPolicy.is_retryable on every input
SpecRetry == RetryInit /\ [][RetryNext]_vars

\* encode_cursor and decode_cursor on every input
SpecCursor == CursorInit /\ [][CursorNext]_vars

\* paging through the list of jobs
SpecList == ListInit /\ [][ListNext]_vars

\* concurrent invocations of the engine adapter
SpecEngine == EngineInit /\ [][EngineNext]_vars

Next == SmNext \/ CbNext \/ JobNext \/ JobFaultNext \/ IdemNext \/ IdemFaultNext \/ RetryNext \/ EngineNext \/ CursorNext \/ ListNext \/ UserNext

Spec == BaseInit /\ [][Next]_vars

-----------------------------------------------------------------------------
(* Properties                                                              *)

\* the six edges of the status state machine
StateMachineEdges ==
    {<< "queued", "processing" >>, << "queued", "failed" >>, << "queued", "cancelled" >>,
     << "processing", "completed" >>, << "processing", "failed" >>,
     << "processing", "cancelled" >>}

\* C1: every change of the job's persisted status follows an edge of the state
\* machine; in particular a completed, failed or cancelled job never changes status.
C1_StatusFollowsEdges ==
    [][(job.exists /\ job'.status # job.status)
          => << job.status, job'.status >> \in StateMachineEdges]_vars

\* C2: when the same body is submitted with the same key by all requests at the
\* same time, one job is created and every request returns that job's id.
C2_ExactlyOneJob ==
    (/\ ticks = 0
     /\ \A r \in Requests : req[r].pc = "done"
     /\ \A r1, r2 \in Requests : req[r1].body = req[r2].body)
       => /\ Cardinality(tasks) = 1
          /\ \A r1, r2 \in Requests : req[r1].returned = req[r2].returned

\* the row a request finds within its TTL window carries another payload hash
FindsOtherPayload(r) ==
    /\ req[r].pc = "fetch"
    /\ idem # None
    /\ idem[1].created_at >= req[r].cutoff
    /\ idem[1].payload_hash # hash_payload(PayloadOf(req[r].body))

C4_NoRunWriteAfterCancel ==
    [][(jobLog.cancelPersisted /\ jobLog'.writes # jobLog.writes)
          => jobLog'.writer # "run"]_vars

\* C5: a cancel request on a completed, failed or cancelled job is answered 409
\* and leaves the row as it was; on a queued or processing job it sets cancelled.
C5_CancelGuard ==
    [][(http'.n # http.n /\ http'.op = "cancel" /\ job.exists)
          => IF job.status \in {"completed", "failed", "cancelled"}
             THEN http'.code = 409 /\ job' = job
             ELSE http'.code = 200 /\ job'.status = "cancelled"]_vars

\* a cancel request was refused on a completed job
C5_Witness ==
    /\ http.op = "cancel"
    /\ http.code = 409
    /\ job.status = "completed"

\* C6: validate_transition is true exactly for the six edges.
C6_TransitionTable ==
    (sm.op = "transition" /\ sm.done)
       => (sm.allowed <=> << sm.from, sm.to >> \in StateMachineEdges)

\* the validator accepted processing -> completed
C6_Witness ==
    /\ sm.op = "transition"
    /\ sm.done
    /\ sm.from = "processing"
    /\ sm.to = "completed"
    /\ sm.allowed

\* the field constraints of a status, with progress optional for queued and processing
FieldsAccepted(status, progress, videoUrl, errorMessage) ==
    CASE status = "queued" ->
            progress \in {None, Some(0)} /\ videoUrl = None /\ errorMessage = None
      [] status = "processing" ->
            (progress = None \/ progress[1] < 100) /\ videoUrl = None
            /\ errorMessage = None
      [] status = "completed" ->
            progress = Some(100) /\ Truthy(videoUrl) /\ errorMessage = None
      [] status = "failed" ->
            Truthy(errorMessage) /\ videoUrl = None
      [] status = "cancelled" ->
            videoUrl = None /\ errorMessage = None

FieldsAcceptedStrict(status, progress, videoUrl, errorMessage) ==
    CASE status = "queued" ->
            progress = Some(0) /\ videoUrl = None /\ errorMessage = None
      [] status = "processing" ->
            progress # None /\ progress[1] \in 0..99 /\ videoUrl = None
            /\ errorMessage = None
      [] status = "completed" ->
            progress = Some(100) /\ Truthy(videoUrl) /\ errorMessage = None
      [] status = "failed" ->
            Truthy(errorMessage) /\ videoUrl = None
      [] status = "cancelled" ->
            videoUrl = None /\ errorMessage = None

CanAttemptNow == can_attempt_result(get_state_locked(cb, now).state)

\* C9: after each of the first 4 failures in a row from CLOSED with count 0,
\* can_attempt is true; after the 5th, and until the cooldown is over, it is false.
C9_FifthFailureOpens ==
    /\ cbObs.streak \in 1..4 => CanAttemptNow
    /\ (cbObs.streak = 5 /\ now - cb.last_failure_time[1] < 60) => ~CanAttemptNow
    /\ (cbObs.op = "can_attempt" /\ cbObs.streak \in 1..4) => cbObs.ret
    /\ (cbObs.op = "can_attempt" /\ cbObs.streak = 5
          /\ now - cb.last_failure_time[1] < 60) => ~cbObs.ret

\* can_attempt was called right after the 5th failure and returned false
C9_Witness ==
    /\ cbObs.streak = 5
    /\ cbObs.op = "can_attempt"
    /\ cbObs.prev = "OPEN"
    /\ ~cbObs.ret

\* C10: can_attempt called on an OPEN breaker returns false and leaves it OPEN
\* while fewer than 60 seconds have passed since the breaker opened; from then on
\* it moves the breaker to HALF_OPEN and returns true.
C10_CooldownSinceOpening ==
    (cbObs.op = "can_attempt" /\ cbObs.prev = "OPEN" /\ cbObs.since # None)
       => IF now - cbObs.since[1] < COOLDOWN_SECONDS
          THEN ~cbObs.ret /\ cb.state = "OPEN"
          ELSE cbObs.ret /\ cb.state = "HALF_OPEN"

\* C11: a RecordFailure on a breaker that is HALF_OPEN (stored as such, or OPEN
\* with its cooldown over) leaves it OPEN with opened_at the time of the failure.
C11_TrialFailureReopens ==
    [][(cbObs'.op = "record_failure" /\ cb' # cb
          /\ get_state_locked(cb, now).state = "HALF_OPEN")
         => (cb'.state = "OPEN" /\ cb'.opened_at = Some(now))]_vars

\* a failure on a stored HALF_OPEN breaker reopened it with the count back at 1
C11_Witness ==
    /\ cbObs.op = "record_failure"
    /\ cbObs.prev = "HALF_OPEN"
    /\ cb.state = "OPEN"
    /\ cb.failure_count = 1
    /\ cb.opened_at = Some(now)

\* C12: after RecordSuccess the breaker is CLOSED with failure count 0 and
\* opened_at cleared, whatever its state was.
C12_SuccessCloses ==
    cbObs.op = "record_success"
       => (cb.state = "CLOSED" /\ cb.failure_count = 0 /\ cb.opened_at = None)

\* RecordSuccess closed a breaker that was OPEN with failures counted
C12_Witness ==
    /\ cbObs.op = "record_success"
    /\ cbObs.prev = "OPEN"
    /\ cbObs.streak = 0
    /\ cb.state = "CLOSED"
    /\ cb.last_failure_time # None

\* C13: between the move to HALF_OPEN and the next RecordSuccess or
\* RecordFailure, at most one CanAttempt returns true.
C13_OneTrialCall == cbObs.trials <= 1

\* C14: when a RecordFailure takes the breaker from CLOSED to OPEN, the failures
\* it counted all lie within one window of WINDOW_SECONDS.
C14_SlidingWindow ==
    (cbObs.op = "record_failure" /\ cbObs.prev = "CLOSED" /\ cb.state = "OPEN")
       => (cbObs.first # None /\ now - cbObs.first[1] <= WINDOW_SECONDS)

\* C15: an invocation that starts while the breaker is OPEN and its cooldown is
\* not over fails with the circuit-open error, sends no request and records
\* neither success nor failure on the breaker.
C15_OpenRejectsWithoutCall ==
    /\ [][\A c \in Calls :
            (/\ calls[c].pc = "new" /\ calls'[c].pc # "new"
             /\ cb.state = "OPEN" /\ cb.opened_at # None
             /\ now - cb.opened_at[1] < COOLDOWN_SECONDS)
               => /\ calls'[c].pc = "done"
                  /\ calls'[c].outcome = "circuit_open"
                  /\ cb' = cb]_vars
    /\ [](\A c \in Calls :
            calls[c].outcome = "circuit_open"
               => /\ calls[c].requests = 0
                  /\ calls[c].successes = 0
                  /\ calls[c].failures = 0)

\* an invocation was rejected by the open breaker
C15_Witness ==
    \E c \in Calls :
        /\ calls[c].outcome = "circuit_open"
        /\ cb.state = "OPEN"

\* C16: the delays before attempts 1, 2, 3 and 4 are 0, 1, 2 and 4 seconds; after
\* a transport error at attempt n another attempt follows exactly when n < 4; no
\* invocation starts a 5th attempt.
C16_BackoffSchedule ==
    /\ [](\A c \in Calls :
            /\ calls[c].attempt <= 4
            /\ calls[c].attempt >= 1 => calls[c].delay = << 0, 1, 2, 4 >>[calls[c].attempt])
    /\ [][\A c \in Calls :
            calls'[c] # calls[c]
               => \A kind \in EngineFunctions :
                    EngineReply(c, kind, [kind |-> "RequestError", code |-> 0])
                       => (calls'[c].pc # "done" <=> calls[c].attempt < 4)]_vars

\* an invocation waited 4 seconds before its 4th attempt and then gave up
C16_Witness ==
    \E c \in Calls :
        /\ calls[c].attempt = 4
        /\ calls[c].delay = 4
        /\ calls[c].requests = 4
        /\ calls[c].outcome = "exhausted"

\* C17: is_retryable is true for every network or timeout error, true for 429
\* and for every status from 500 to 599, and false for 400, 401, 403 and 404.
C17_RetryableClasses ==
    rp.done
       => /\ (rp.error # None /\ rp.error[1] \in NetworkErrors) => rp.result
          /\ (rp.error = None /\ rp.status_code # None
                 /\ (rp.status_code[1] = 429 \/ rp.status_code[1] \in 500..599))
               => rp.result
          /\ (rp.error = None /\ rp.status_code # None
                 /\ rp.status_code[1] \in {400, 401, 403, 404})
               => ~rp.result

\* C18: an invocation sends at most 4 requests, and a reply of 400, 401, 403 or
\* 404 at any attempt ends it in the same step, with no further request: a
\* step of an invocation either ends it as a permanent failure with its
\* request count unchanged, or is not the handling of such a reply.
C18_BoundedAttempts ==
    /\ [](\A c \in Calls : calls[c].requests <= 4)
    /\ [][\A c \in Calls :
            \/ calls'[c] = calls[c]
            \/ /\ calls'[c].pc = "done"
               /\ calls'[c].outcome = "permanent"
               /\ calls'[c].requests = calls[c].requests
            \/ \A kind \in EngineFunctions : \A code \in {400, 401, 403, 404} :
                  ~EngineReply(c, kind, [kind |-> "status", code |-> code])]_vars

\* a non-retryable reply ended an invocation at its second attempt
C18_Witness ==
    \E c \in Calls :
        /\ calls[c].outcome = "permanent"
        /\ calls[c].attempt = 2
        /\ calls[c].requests = 2

\* C19: an invocation that ends on a non-retryable reply or with its attempts
\* exhausted has called record_failure once and record_success never; one that
\* succeeds has called record_success once and record_failure never; no step
\* before the last one of an invocation touches the breaker.
C19_OneOutcomeRecorded ==
    /\ [](\A c \in Calls :
            /\ calls[c].outcome \in {"permanent", "exhausted"}
                  => (calls[c].failures = 1 /\ calls[c].successes = 0)
            /\ calls[c].outcome = "ok"
                  => (calls[c].successes = 1 /\ calls[c].failures = 0)
            /\ calls[c].pc # "done"
                  => (calls[c].successes = 0 /\ calls[c].failures = 0))
    /\ [][\A c \in Calls :
            /\ (calls[c].pc \in {"awaiting", "sleeping"} /\ calls'[c] # calls[c]
                  /\ calls'[c].pc # "done")
                  => cb' = cb
            /\ (calls[c].pc # "done" /\ calls'[c].outcome \in {"permanent", "exhausted"})
                  => cb' = record_failure(cb, now)
            /\ (calls[c].pc # "done" /\ calls'[c].outcome = "ok")
                  => cb' = record_success(cb)]_vars

\* an invocation used all 4 attempts and recorded one failure
C19_Witness ==
    \E c \in Calls :
        /\ calls[c].outcome = "exhausted"
        /\ calls[c].requests = 4
        /\ calls[c].failures = 1

\* C20: while a record is within its TTL, a job id it holds is not replaced by
\* another value, whatever requests acquire and finalize on its key.
C20_JobIdBound ==
    [][(/\ idem # None /\ idem[1].task_id # None
        /\ idem[1].created_at >= get_ttl_cutoff(now)
        /\ idem' # None /\ idem'[1].created_at = idem[1].created_at)
          => idem'[1].task_id = idem[1].task_id]_vars

\* C21: a request whose try_acquire_idempotency_lock reads a record older than
\* the TTL gets Acquired: the fetch of an expired record never leads to
\* Conflict, a hit or a wait, whatever payload and job id the record holds, and
\* the repeated INSERT ends with Acquired also while the expired record is
\* still stored.
C21_ExpiredIsFirstUse ==
    [][\A r \in Requests :
         /\ (/\ req[r].pc = "fetch" /\ req'[r] # req[r]
             /\ idem # None /\ idem[1].created_at < req[r].cutoff)
               => (req'[r].pc = "reinsert" \/ req'[r].result = "acquired")
         /\ (req[r].pc = "reinsert" /\ req'[r] # req[r])
               => /\ req'[r].result = "acquired"
                  /\ req'[r].pc = "create"]_vars

\* a request with another payload acquired the key while the expired record,
\* bound to a job that still exists, was still stored
C21_Witness ==
    \E r \in Requests :
        /\ req[r].result = "acquired"
        /\ req[r].pc = "create"
        /\ idem # None
        /\ idem[1].created_at < get_ttl_cutoff(now)
        /\ idem[1].payload_hash # hash_payload(PayloadOf(req[r].body))
        /\ idem[1].task_id # None
        /\ idem[1].task_id[1] \in tasks

\* C22: when a storage call of try_acquire_idempotency_lock fails with an error
\* that is not a uniqueness violation, at the first INSERT, the fetch, the
\* repeated INSERT or the re-fetch, the function returns Acquired in that step
\* and the caller goes on to create the job; it never returns Conflict.
C22_FailOpen ==
    [][\A r \in Requests :
         AcquireStorageError(r)
            => /\ req'[r].result = "acquired"
               /\ req'[r].pc = "create"
               /\ req'[r].existing = None]_vars

\* a request got Acquired by a storage error although another request's record
\* with a different payload was stored and within its TTL
C22_Witness ==
    \E r \in Requests :
        /\ now = 0
        /\ req[r].result = "acquired"
        /\ req[r].created # None
        /\ idem # None
        /\ idem[1].payload_hash # hash_payload(PayloadOf(req[r].body))

\* C23: when a run ends without having observed a cancellation, the status it
\* leaves persisted is completed or failed, whatever failed on the way: the
\* engine, the download, the upload or a write of the job store.
C23_RunEndsTerminal ==
    [][(run.pc # "done" /\ run'.pc = "done" /\ ~run'.stopped)
          => job'.status \in {"completed", "failed"}]_vars

C25_CursorRoundTrip ==
    (cur.op = "roundtrip" /\ cur.done)
       => cur.out = Some([created_at |-> cur.created_at, task_id |-> cur.task_id,
                          q |-> cur.q, status |-> cur.status, sort |-> cur.sort])

\* C26: a list request whose cursor was issued under a q, status or sort
\* different from its own is answered with CURSOR_FILTER_MISMATCH and no items;
\* a request whose cursor was issued under its own filters is accepted.
C26_CursorBoundToFilters ==
    pg.resp.had_cursor
       => /\ pg.resp.kind = "other"
                => (pg.resp.code = "CURSOR_FILTER_MISMATCH" /\ pg.resp.n = 0)
          /\ pg.resp.kind = "same" => pg.resp.code = "ok"

\* the matching jobs in the order of the sort
ExpectedList ==
    Ordered(pg.table, {i \in JobIds : Matches(pg.table, i, pg.q, pg.status)},
            pg.sort = << "createdAt_desc" >>)

\* C27: following nextCursor from the first page until it is null returns every
\* matching job once, in (created_at, id) order; a page with a nextCursor is
\* not the last one, and no page of the walk is refused.
C27_PagesCoverOnce ==
    /\ pg.pc # "error"
    /\ pg.pc = "done" => pg.seen = ExpectedList
    /\ (pg.pc = "paging" /\ pg.cursor # None)
          => /\ Len(pg.seen) < Len(ExpectedList)
             /\ pg.seen = SubSeq(ExpectedList, 1, Len(pg.seen))

\* C28: decode_cursor returns None for every cursor that is not valid base64,
\* whose text does not have exactly five "|"-separated parts, or whose first
\* part is not a valid datetime.
C28_MalformedCursorIsNone ==
    (cur.op = "decode" /\ cur.done)
       => LET raw == urlsafe_b64decode(cur.cursor) IN
          (\/ raw = None
           \/ Len(split(raw[1])) # 5
           \/ ~IsIsoDatetime(split(raw[1])[1]))
             => cur.out = None

\* C29: get_status is a pure read: in every breaker state and at every time it
\* leaves state, failure count, last failure time and opening time unchanged.
C29_GetStatusPureRead ==
    [][GetStatus => cb' = cb]_vars

\* C30: the persisted job row satisfies the field constraints of its status:
\* completed has progress 100, a video url and no error message; failed has an
\* error message and no video url; queued, processing and cancelled have
\* neither; processing has progress at most 99.
C30_RowMeetsConstraints ==
    job.exists =>
        /\ job.status = "completed" =>
              job.progress = 100 /\ Truthy(job.video_url) /\ job.error_message = None
        /\ job.status = "failed" =>
              Truthy(job.error_message) /\ job.video_url = None
        /\ job.status \in {"queued", "processing", "cancelled"} =>
              job.video_url = None /\ job.error_message = None
        /\ job.status = "processing" => job.progress <= 99

C32_SanitizedMessages ==
    /\ [](\A t \in ExceptionTexts :
             job.error_message # Some(t) /\ job.video_url # Some(t))
    /\ [][(/\ jobLog'.writes = jobLog.writes + 1 /\ jobLog'.writer = "run"
            /\ job'.error_message # job.error_message)
              => /\ job'.error_message \in {Some(m) : m \in GenericMessages}
                 /\ run.error \in {"RunwayAPIError", "RunwayConfigError"}
                       => job'.error_message = Some(MSG_RUNWAY)
                 /\ run.error \in {"SupabaseUploadError", "SupabaseConfigError"}
                       => job'.error_message = Some(MSG_STORAGE)]_vars

C32_Witness ==
    /\ job.engine = "runway" /\ run.pc = "done" /\ run.polls = 1
    /\ run.error = "RunwayAPIError" /\ jobLog.writer = "run"
    /\ job.status = "failed" /\ job.error_message = Some(MSG_RUNWAY)
    /\ job.progress = MapProgress(0)

C34_NoRequestWhileOpen ==
    [][\A c \in Calls :
         calls'[c].requests > calls[c].requests
           => get_state_locked(cb', now').state # "OPEN"]_vars

\* C35: an invocation that has sent one or more requests has recorded exactly
\* one outcome on the breaker, record_success or record_failure, when it returns
\* or raises, on every exit path.
C35_OneOutcomeRecorded ==
    \A c \in Calls :
        (calls[c].pc = "done" /\ calls[c].requests >= 1)
          => calls[c].successes + calls[c].failures = 1

\* C36: a RecordFailure on a breaker that is OPEN with its cooldown not over
\* leaves opened_at unchanged, so the breaker becomes HALF_OPEN 60 seconds after
\* it opened, however many failures arrive meanwhile.
C36_LateFailureKeepsOpenedAt ==
    [][(/\ RecordFailure
        /\ cb.state = "OPEN" /\ cb.opened_at # None
        /\ now - cb.opened_at[1] < COOLDOWN_SECONDS)
          => cb'.opened_at = cb.opened_at]_vars

\* C37: the progress values that a run writes to its job never decrease from
\* one write to the next, up to the write of completed or failed.
C37_RunProgressMonotone ==
    [][(jobLog.runProgress # None /\ jobLog'.runProgress # None)
         => jobLog'.runProgress[1] >= jobLog.runProgress[1]]_vars

\* C38: processing_at is set by the write that first moves the job to
\* processing and is left unchanged by every later write that keeps the job in
\* processing.
C38_ProcessingAtSetOnce ==
    [][(job.exists /\ job.status = "processing" /\ job'.status = "processing")
         => job'.processing_at = job.processing_at]_vars

\* request o is the first to reuse the key after its record has expired; it
\* created its job and was answered
ReusedExpired(o) ==
    /\ req[o].timed
    /\ req[o].pc = "done" /\ req[o].result = "acquired" /\ req[o].created # None
    /\ StaleRecord.created_at < get_ttl_cutoff(req[o].at)
    /\ \A p \in req[o].after : req[p].result # "acquired"

\* C39: after an expired key has been reused, the new job created and
\* Finalize called, a request with the same key and payload that arrives within
\* the TTL of the reuse returns the new job's id and creates no job, whether or
\* not Cleanup has run.
C39_ReuseIsRemembered ==
    \A o, r \in Requests :
        (/\ ReusedExpired(o)
         /\ o \in req[r].after
         /\ req[r].pc = "done"
         /\ hash_payload(PayloadOf(req[r].body)) = hash_payload(PayloadOf(req[o].body))
         /\ req[o].at >= get_ttl_cutoff(req[r].at))
           => /\ req[r].returned = req[o].created
              /\ req[r].created = None

\* C40: the number of a user's jobs in queued or processing never exceeds
\* MAX_CONCURRENT_TASKS_PER_USER; a create request that arrives when the user
\* has that many active jobs is answered 429 and creates no job, also when
\* several create requests of the user are in flight.
C40_ActiveJobsBounded ==
    /\ [](count_active_tasks(usr.rows) <= MAX_CONCURRENT_TASKS_PER_USER)
    /\ [][\A r \in Creates :
            (/\ usr.creates[r].pc = "new" /\ usr'.creates[r].pc # "new"
             /\ count_active_tasks(usr.rows) >= MAX_CONCURRENT_TASKS_PER_USER)
               => /\ usr'.creates[r].pc = "done" /\ usr'.creates[r].code = 429
                  /\ usr'.rows = usr.rows]_vars

====
